---- MODULE Spec2Model ----
(***************************************************************************)
(* Model of the PDF signature validation pipeline of                       *)
(* app/validation/signature_validator.py and of the certificate check of   *)
(* app/validation/validation_utils.py.                                     *)
(*                                                                         *)
(* A document is the abstract content of the file as PyPDF2 exposes it:    *)
(* does the file exist, does it start with %PDF-, does PdfReader parse it, *)
(* has it pages, what is under /Root -> /AcroForm -> /Fields.  A verdict   *)
(* or result dict is a record with a field "keys" holding the keys that    *)
(* are present; the other fields hold the values (a default where the key  *)
(* is absent).  Times are integers; datetime.now() is the variable now.    *)
(* Message strings are the source's, without diacritics.                   *)
(***************************************************************************)
EXTENDS Integers, Sequences, FiniteSets, TLC

\* ---------------------------------------------------------------- bounds
MaxTime == 1
MaxFields == 2
MaxJobs == 1
MaxExts == 2
MaxBadByte == 3
MaxPolicies == 2
MaxOffsets == 2

Times == 0..MaxTime

\* ------------------------------------------------------------ certificates
\* Key-Usage extension as get_extension_for_oid answers: the extension with
\* its two signing bits, ExtensionNotFound ("absent"), or another exception.
KeyUsages ==
    {[ext |-> "present", ds |-> d, cc |-> c] : d \in BOOLEAN, c \in BOOLEAN}
    \cup {[ext |-> "absent", ds |-> FALSE, cc |-> FALSE],
          [ext |-> "error", ds |-> FALSE, cc |-> FALSE]}

Names == {"CA1", "CA2"}

Certs == [nb : Times, na : Times, ku : KeyUsages, issuer : Names]

\* trust anchors: only their subject is consulted
Anchors == [subject : Names]

AnchorLists == {<<>>} \cup {<<a>> : a \in Anchors}
                 \cup {<<a, b>> : a \in Anchors, b \in Anchors}

\* ------------------------------------------------ verify_certificate_chain
\* temporal check, as a mutation would write it: the upper bound exclusive
temporal_errors_halfopen(certificate, now) ==
    IF certificate.nb > now THEN <<"Certificado ainda nao e valido">>
    ELSE IF certificate.na <= now THEN <<"Certificado expirado">>
    ELSE <<>>

\* validation_utils.py:115-124
temporal_errors(certificate, now) ==
    IF certificate.nb > now THEN <<"Certificado ainda nao e valido">>
    ELSE IF certificate.na < now THEN <<"Certificado expirado">>
    ELSE <<>>

\* the key-usage test as a mutation would write it: only digitalSignature
key_usage_valid_ds_only(certificate) ==
    ~(certificate.ku.ext = "present" /\ ~certificate.ku.ds)

\* validation_utils.py:126-143
key_usage_valid(certificate) ==
    ~(certificate.ku.ext = "present"
      /\ ~(certificate.ku.ds \/ certificate.ku.cc))

\* the key-usage reasons as a mutation would write them: the flag is cleared
\* without a reason
key_usage_errors_silent(certificate) ==
    IF certificate.ku.ext = "error"
    THEN <<"Erro ao verificar Key Usage">>
    ELSE <<>>

key_usage_errors(certificate) ==
    IF certificate.ku.ext = "present"
         /\ ~(certificate.ku.ds \/ certificate.ku.cc)
    THEN <<"Certificado nao autorizado para assinatura digital">>
    ELSE IF certificate.ku.ext = "error"
    THEN <<"Erro ao verificar Key Usage">>
    ELSE <<>>

\* the anchor search as a mutation would write it: only the first anchor
chain_found_first_only(certificate, trusted_certs) ==
    /\ trusted_certs # <<>>
    /\ certificate.issuer = trusted_certs[1].subject

\* validation_utils.py:145-164; an empty or missing anchor list is falsy
chain_found(certificate, trusted_certs) ==
    \E k \in 1..Len(trusted_certs) :
        certificate.issuer = trusted_certs[k].subject

chain_verified(certificate, trusted_certs) ==
    trusted_certs = <<>> \/ chain_found(certificate, trusted_certs)

chain_errors(certificate, trusted_certs) ==
    IF chain_verified(certificate, trusted_certs) THEN <<>>
    ELSE <<"Cadeia de certificacao nao confiavel">>

\* validation_utils.py:91-170: the pair (is_valid, details) as one record
verify_certificate_chain(certificate, trusted_certs, now) ==
    [is_valid |-> /\ temporal_errors(certificate, now) = <<>>
                  /\ key_usage_valid(certificate)
                  /\ chain_verified(certificate, trusted_certs),
     chain_verified |-> chain_verified(certificate, trusted_certs),
     not_revoked |-> TRUE,
     not_expired |-> temporal_errors(certificate, now) = <<>>,
     signature_valid |-> TRUE,
     key_usage_valid |-> key_usage_valid(certificate),
     validation_errors |-> temporal_errors(certificate, now)
                           \o key_usage_errors(certificate)
                           \o chain_errors(certificate, trusted_certs)]

\* ------------------------------------------------------------- documents
\* An optional value (None or a dict) is a sequence of length 0 or 1.
None == <<>>

\* the certificates that signature containers of the modelled files embed:
\* one valid at every time, one whose validity ends at time 0, one whose
\* validity starts at the last time, and one valid at every time whose
\* Key-Usage extension allows no signing
SigCerts ==
    {c \in Certs :
        /\ c.issuer = "CA1"
        /\ \/ c.ku.ext = "absent"
              /\ <<c.nb, c.na>> \in
                    {<<0, MaxTime>>, <<0, 0>>, <<MaxTime, MaxTime>>}
           \/ c.ku.ext = "present" /\ ~c.ku.ds /\ ~c.ku.cc
              /\ <<c.nb, c.na>> = <<0, MaxTime>>}

DefaultCert ==
    [nb |-> 0, na |-> 0, issuer |-> "CA1",
     ku |-> [ext |-> "absent", ds |-> FALSE, cc |-> FALSE]]

\* the bytes of /Contents, by what the certificate search can find in them:
\* "none" no pattern at all, "marker" a certificate pattern that does not
\* decode, "cert" a DER certificate that load_der_x509_certificate decodes
Datas ==
    {[kind |-> "none", cert |-> DefaultCert],
     [kind |-> "marker", cert |-> DefaultCert]}
    \cup {[kind |-> "cert", cert |-> c] : c \in SigCerts}

DefaultData == [kind |-> "none", cert |-> DefaultCert]

\* the value of a field's /V: absent, an object that is not a dictionary,
\* or a signature dictionary whose /Contents is absent, a str that is not
\* hexadecimal, a hexadecimal str, or a byte string
SigValues ==
    {[kind |-> "absent", contents |-> "absent", data |-> DefaultData],
     [kind |-> "notdict", contents |-> "absent", data |-> DefaultData],
     [kind |-> "dict", contents |-> "absent", data |-> DefaultData],
     [kind |-> "dict", contents |-> "badhex", data |-> DefaultData]}
    \cup {[kind |-> "dict", contents |-> e, data |-> d] :
              e \in {"hex", "bytes"}, d \in Datas}

DefaultValue ==
    [kind |-> "absent", contents |-> "absent", data |-> DefaultData]

\* an entry of /Fields: does get_object() succeed, its /FT, its /V
Fields ==
    {[deref |-> FALSE, ft |-> "none", v |-> DefaultValue],
     [deref |-> TRUE, ft |-> "none", v |-> DefaultValue],
     [deref |-> TRUE, ft |-> "Btn", v |-> DefaultValue]}
    \cup {[deref |-> TRUE, ft |-> "Sig", v |-> x] : x \in SigValues}

FieldSeqs(n) == UNION {[1..k -> Fields] : k \in 0..n}

AcroForms == {"noroot", "noacroform", "nofields", "malformed", "fields"}

\* the signature widgets found in the /Annots arrays of the pages
\* the /Annots of the first page: none, or one signed signature widget
AnnotSeqs ==
    {<<>>,
     <<[deref |-> TRUE, ft |-> "Sig",
        v |-> [kind |-> "dict", contents |-> "bytes",
               data |-> [kind |-> "marker", cert |-> DefaultCert]]]>>}

\* files that reach the field scan, and files that fail before it (these
\* carry at most one field, which must then never be looked at); the
\* latter come with and without a signature widget in /Annots
Docs ==
    {[exists |-> TRUE, header |-> TRUE, parse |-> TRUE, pages |-> TRUE,
      acroform |-> "fields", fields |-> fs, annots |-> <<>>] :
         fs \in FieldSeqs(MaxFields)}
    \cup [exists : BOOLEAN, header : BOOLEAN, parse : BOOLEAN,
          pages : BOOLEAN, acroform : AcroForms, fields : FieldSeqs(1),
          annots : AnnotSeqs]

EmptyDoc ==
    [exists |-> FALSE, header |-> FALSE, parse |-> FALSE, pages |-> FALSE,
     acroform |-> "noroot", fields |-> <<>>, annots |-> <<>>]

\* ------------------------------------------------ certificate extraction
\* signature_validator.py:307-353: the first decodable DER certificate,
\* with the outcome of verify_certificate_chain(cert) attached
extract_x509_from_data(data, now) ==
    IF data.kind = "cert"
    THEN <<[subject |-> "cert", valid_from |-> data.cert.nb,
            valid_until |-> data.cert.na,
            chain_valid |->
                verify_certificate_chain(data.cert, <<>>, now).is_valid,
            chain_details |->
                <<verify_certificate_chain(data.cert, <<>>, now)>>,
            validation_method |-> "Absent"]>>
    ELSE None

\* signature_validator.py:356-387
search_x509_patterns(data) ==
    IF data.kind \in {"marker", "cert"}
    THEN <<[subject |-> "Certificado encontrado (analise simplificada)",
            valid_from |-> -1, valid_until |-> -1,
            chain_valid |-> TRUE, chain_details |-> None,
            validation_method |-> "pattern_matching"]>>
    ELSE None

\* signature_validator.py:275-304
extract_certificate_from_signature(data, now) ==
    IF extract_x509_from_data(data, now) # None
    THEN extract_x509_from_data(data, now)
    ELSE search_x509_patterns(data)

\* ------------------------------------------------- per-signature results
\* A result dict is a record; "keys" lists the keys the dict holds, and a
\* key that is not listed has a default in its field.  The PAdES marker
\* flags that validate_pades_signature merges in (pades_compliant,
\* timestamp_valid, ltv_valid) are left out: they overwrite no other key.
BasicKeys == {"signer", "signing_time", "reason", "location", "is_valid"}

CryptoKeys ==
    {"is_valid", "certificate_info", "chain_valid", "signature_intact",
     "validation_error"}

ErrorKeys == {"signer", "signing_time", "is_valid", "validation_error"}

NoError == "None"

\* signature_validator.py:221-227, the initial validation_result
validation_result0 ==
    [keys |-> BasicKeys \cup CryptoKeys, signer |-> "", is_valid |-> FALSE,
     certificate_info |-> None, chain_valid |-> FALSE,
     signature_intact |-> FALSE, validation_error |-> NoError]

\* signature_validator.py:259-262
is_valid_rule(cert_info) == cert_info # None

\* the validation as a mutation would write it: a dictionary without
\* /Contents is reported invalid but no reason is recorded
validate_signature_cryptographically_silent(sig_dict, now) ==
    IF sig_dict.contents = "absent"
    THEN validation_result0
    ELSE IF sig_dict.contents = "badhex"
    THEN [validation_result0 EXCEPT
            !.validation_error = "Erro na validacao criptografica: fromhex"]
    ELSE LET cert_info ==
                 extract_certificate_from_signature(sig_dict.data, now)
         IN  [validation_result0 EXCEPT
                !.certificate_info = cert_info,
                !.chain_valid = IF cert_info # None
                                THEN cert_info[1].chain_valid ELSE FALSE,
                !.signature_intact = TRUE,
                !.is_valid = cert_info # None]

\* signature_validator.py:217-272 merged into the dict of
\* extract_basic_signature_info (196-214, 170-174)
validate_signature_cryptographically(sig_dict, now) ==
    IF sig_dict.contents = "absent"
    THEN [validation_result0 EXCEPT
            !.validation_error = "Conteudo da assinatura nao encontrado"]
    ELSE IF sig_dict.contents = "badhex"
    THEN [validation_result0 EXCEPT
            !.validation_error = "Erro na validacao criptografica: fromhex"]
    ELSE LET cert_info ==
                 extract_certificate_from_signature(sig_dict.data, now)
         IN  [validation_result0 EXCEPT
                !.certificate_info = cert_info,
                !.chain_valid = IF cert_info # None
                                THEN cert_info[1].chain_valid ELSE FALSE,
                !.signature_intact = TRUE,
                !.is_valid = is_valid_rule(cert_info)]

\* signature_validator.py:181-186, the dict appended when a field raises
error_result(message) ==
    [keys |-> ErrorKeys, signer |-> "Erro ao extrair", is_valid |-> FALSE,
     certificate_info |-> None, chain_valid |-> FALSE,
     signature_intact |-> FALSE, validation_error |-> message]

\* does the certificate decoder run for this field
\* (signature_validator.py:246, reached only past 231-241)
decodes(field) ==
    /\ field.deref /\ field.ft = "Sig" /\ field.v.kind = "dict"
    /\ field.v.contents \in {"hex", "bytes"}

\* the loop body as a mutation would write it: a field that raises is
\* logged and skipped, no dict is appended for it
field_results_skip(field, now) ==
    IF ~field.deref THEN <<>>
    ELSE IF field.ft = "Sig" /\ field.v.kind # "absent"
    THEN IF field.v.kind = "notdict"
         THEN <<>>
         ELSE <<validate_signature_cryptographically(field.v, now)>>
    ELSE <<>>

\* one iteration of the loop of extract_and_validate_signatures
\* (signature_validator.py:161-187): the dicts it appends, none or one
field_results(field, now) ==
    IF ~field.deref THEN <<error_result("get_object")>>
    ELSE IF field.ft = "Sig" /\ field.v.kind # "absent"
    THEN IF field.v.kind = "notdict"
         THEN <<error_result("not a dictionary")>>
         ELSE <<validate_signature_cryptographically(field.v, now)>>
    ELSE <<>>

\* signature_validator.py:114-141
check_signatures_presence(doc) ==
    /\ doc.acroform = "fields"
    /\ \E k \in 1..Len(doc.fields) :
          doc.fields[k].deref /\ doc.fields[k].ft = "Sig"

\* extract_and_validate_signatures as a function of the fields and of the
\* time each is processed at (signature_validator.py:149-189)
RECURSIVE extract_and_validate_signatures(_, _)
extract_and_validate_signatures(fields, times) ==
    IF fields = <<>> THEN <<>>
    ELSE field_results(Head(fields), Head(times))
         \o extract_and_validate_signatures(Tail(fields), Tail(times))

\* ---------------------------------------------------------------- verdicts
VerdictErrorKeys == {"valid", "error", "filename"}

VerdictListKeys ==
    {"valid", "total_signatures", "valid_signatures", "invalid_signatures",
     "filename", "validation_details"}

NoVerdict ==
    [keys |-> {}, valid |-> FALSE, error |-> "", total_signatures |-> 0,
     valid_signatures |-> <<>>, invalid_signatures |-> <<>>]

error_verdict(keys, message) ==
    [NoVerdict EXCEPT !.keys = keys, !.error = message]

IsValidResult(s) == s.is_valid

IsInvalidResult(s) == ~s.is_valid

\* the document rule as a mutation would write it: every signature valid
is_document_valid_all(sigs) ==
    \A k \in 1..Len(sigs) : sigs[k].is_valid

\* signature_validator.py:87-91
is_document_valid(sigs) ==
    Len(SelectSeq(sigs, IsValidResult)) > 0

\* the verdict as a mutation would write it: the second list keeps every
\* result instead of the results that are not valid
aggregate_all_in_second_list(sigs) ==
    IF sigs = <<>>
    THEN error_verdict(VerdictErrorKeys,
                       "Nao foi possivel extrair ou validar assinaturas")
    ELSE [keys |-> VerdictListKeys, valid |-> is_document_valid(sigs),
          error |-> "", total_signatures |-> Len(sigs),
          valid_signatures |-> SelectSeq(sigs, IsValidResult),
          invalid_signatures |-> sigs]

\* signature_validator.py:79-104
aggregate(sigs) ==
    IF sigs = <<>>
    THEN error_verdict(VerdictErrorKeys,
                       "Nao foi possivel extrair ou validar assinaturas")
    ELSE [keys |-> VerdictListKeys, valid |-> is_document_valid(sigs),
          error |-> "", total_signatures |-> Len(sigs),
          valid_signatures |-> SelectSeq(sigs, IsValidResult),
          invalid_signatures |-> SelectSeq(sigs, IsInvalidResult)]

\* ------------------------------------------------------------------- state
\* ------------------------------------------------------------- job ids
JobIds == 1..MaxJobs

VARIABLES
    pc,              \* position in validate_signature
    doc,             \* the file being validated
    now,             \* datetime.now()
    i,               \* loop index of extract_and_validate_signatures
    signatures,      \* the list the loop builds
    origin,          \* for each dict of signatures, the index of its field
    clock,           \* for each dict of signatures, the time it was built at
    verdict,         \* the dict validate_signature returned
    extract_called,  \* was extract_and_validate_signatures entered
    decoder_calls,   \* calls of extract_certificate_from_signature
    chain_in,        \* arguments of a direct verify_certificate_chain call
    chain_out,       \* its result, None before the call
    fn_in,           \* argument of a direct call of a helper function
    fn_out,          \* its result, None before the call
    scan,            \* the loops of a running extract_x509_from_data call
    jobs,            \* the validation_jobs table, by job id
    reports,         \* the job ids whose report file is on disk
    tasks,           \* the job ids with a process_validation_job task to run
    response         \* the last HTTP response, None before any request

vars ==
    <<pc, doc, now, i, signatures, origin, clock, verdict, extract_called,
      decoder_calls, chain_in, chain_out, fn_in, fn_out, scan, jobs,
      reports, tasks, response>>

pipeline_vars ==
    <<pc, doc, now, i, signatures, origin, clock, verdict, extract_called,
      decoder_calls>>

chain_vars == <<chain_in, chain_out>>

fn_vars == <<fn_in, fn_out, scan>>

web_vars == <<jobs, reports, tasks, response>>

DefaultChainIn == [cert |-> DefaultCert, trusted |-> <<>>, now |-> 0]

PipelineInit ==
    /\ pc = "idle"
    /\ doc = EmptyDoc
    /\ now = 0
    /\ i = 0
    /\ signatures = <<>>
    /\ origin = <<>>
    /\ clock = <<>>
    /\ verdict = NoVerdict
    /\ extract_called = FALSE
    /\ decoder_calls = 0

FnIdle ==
    /\ fn_in = None
    /\ fn_out = None
    /\ scan = None

\* an empty validation_jobs table, an empty reports directory, no request
WebIdle ==
    /\ jobs = [j \in JobIds |-> None]
    /\ reports = {}
    /\ tasks = {}
    /\ response = None

Init ==
    /\ PipelineInit
    /\ chain_in = DefaultChainIn
    /\ chain_out = None
    /\ FnIdle
    /\ WebIdle

Return(v) ==
    /\ verdict' = v
    /\ pc' = "done"

\* the opening checks as a mutation would write them: the test for a PDF
\* without pages is missing
Open_no_pages_check(d, t) ==
    /\ pc = "idle"
    /\ doc' = d
    /\ now' = t
    /\ IF ~d.exists
       THEN Return(error_verdict({"valid", "error"},
                                 "Arquivo nao encontrado"))
       ELSE IF ~d.header
       THEN Return(error_verdict(VerdictErrorKeys,
                                 "Arquivo nao e um PDF valido"))
       ELSE IF ~d.parse
       THEN Return(error_verdict(VerdictErrorKeys, "Erro ao ler PDF"))
       ELSE pc' = "presence" /\ UNCHANGED verdict
    /\ UNCHANGED <<i, signatures, origin, clock, extract_called,
                   decoder_calls, chain_vars, fn_vars, web_vars>>

\* validate_signature, signature_validator.py:28-64: the checks that come
\* before any look at the fields
Open(d, t) ==
    /\ pc = "idle"
    /\ doc' = d
    /\ now' = t
    /\ IF ~d.exists
       THEN Return(error_verdict({"valid", "error"},
                                 "Arquivo nao encontrado"))
       ELSE IF ~d.header
       THEN Return(error_verdict(VerdictErrorKeys,
                                 "Arquivo nao e um PDF valido"))
       ELSE IF ~d.parse
       THEN Return(error_verdict(VerdictErrorKeys, "Erro ao ler PDF"))
       ELSE IF ~d.pages
       THEN Return(error_verdict(VerdictErrorKeys,
                                 "PDF corrompido ou sem paginas"))
       ELSE pc' = "presence" /\ UNCHANGED verdict
    /\ UNCHANGED <<i, signatures, origin, clock, extract_called,
                   decoder_calls, chain_vars, fn_vars, web_vars>>

\* validate_signature, signature_validator.py:66-77
CheckPresence ==
    /\ pc = "presence"
    /\ IF ~check_signatures_presence(doc)
       THEN /\ Return(error_verdict(VerdictErrorKeys,
                          "Documento nao contem assinaturas digitais"))
            /\ UNCHANGED <<i, extract_called>>
       ELSE /\ pc' = "extract"
            /\ i' = 1
            /\ extract_called' = TRUE
            /\ UNCHANGED verdict
    /\ UNCHANGED <<doc, now, signatures, origin, clock, decoder_calls,
                   chain_vars, fn_vars, web_vars>>

\* one iteration of the loop of extract_and_validate_signatures,
\* signature_validator.py:161-187
ExtractField ==
    /\ pc = "extract"
    /\ i <= Len(doc.fields)
    /\ LET new == field_results(doc.fields[i], now)
       IN  /\ signatures' = signatures \o new
           /\ origin' = IF new = <<>> THEN origin ELSE Append(origin, i)
           /\ clock' = IF new = <<>> THEN clock ELSE Append(clock, now)
    /\ decoder_calls' =
          IF decodes(doc.fields[i]) THEN decoder_calls + 1 ELSE decoder_calls
    /\ i' = i + 1
    /\ UNCHANGED <<pc, doc, now, verdict, extract_called, chain_vars, fn_vars,
                   web_vars>>

\* the clock advances while the fields are processed
Tick ==
    /\ pc = "extract"
    /\ now < MaxTime
    /\ now' = now + 1
    /\ UNCHANGED <<pc, doc, i, signatures, origin, clock, verdict,
                   extract_called, decoder_calls, chain_vars, fn_vars,
                   web_vars>>

\* validate_signature, signature_validator.py:77-104, once the loop ended
Aggregate ==
    /\ pc = "extract"
    /\ i > Len(doc.fields)
    /\ Return(aggregate(signatures))
    /\ UNCHANGED <<doc, now, i, signatures, origin, clock, extract_called,
                   decoder_calls, chain_vars, fn_vars, web_vars>>

\* a call validate_signature(file_path) on any file, at any time
Validate ==
    /\ pc = "idle"
    /\ \E d \in Docs, t \in Times : Open(d, t)

Next ==
    \/ Validate
    \/ CheckPresence
    \/ ExtractField
    \/ Tick
    \/ Aggregate

Spec == Init /\ [][Next]_vars

\* ------------------------------------ verify_certificate_chain on its own
ChainInit ==
    /\ PipelineInit
    /\ chain_in \in [cert : Certs, trusted : AnchorLists, now : Times]
    /\ chain_out = None
    /\ FnIdle
    /\ WebIdle

Verify ==
    /\ chain_out = None
    /\ chain_out' = <<verify_certificate_chain(chain_in.cert,
                          chain_in.trusted, chain_in.now)>>
    /\ UNCHANGED <<chain_in, pipeline_vars, fn_vars, web_vars>>

SpecChain == ChainInit /\ [][Verify]_vars

\* ------------------------------------------------------ format_pdf_date
\* Strings are sequences of one-character strings.
Digits == <<"0", "1", "2", "3", "4", "5", "6", "7", "8", "9">>

IsDigit(c) == \E n \in 1..10 : Digits[n] = c

AllDigits(s) == \A k \in 1..Len(s) : IsDigit(s[k])

DigitValue(c) == (CHOOSE n \in 1..10 : Digits[n] = c) - 1

RECURSIVE Number(_)
\* int() of a string of digits
Number(s) ==
    IF s = <<>> THEN 0
    ELSE 10 * Number(SubSeq(s, 1, Len(s) - 1)) + DigitValue(s[Len(s)])

\* s[:n]
Prefix(s, n) == SubSeq(s, 1, IF Len(s) < n THEN Len(s) ELSE n)

\* s[n:]
Suffix(s, n) == SubSeq(s, n + 1, Len(s))

startswith(s, p) == Len(s) >= Len(p) /\ Prefix(s, Len(p)) = p

\* the regular expression strptime compiles for one directive: a text of
\* width 2 or 1 that one of its alternatives accepts
DirectiveMatches(directive, t) ==
    /\ AllDigits(t)
    /\ IF Len(t) = 2
       THEN CASE directive = "m" -> Number(t) \in 1..12
              [] directive = "d" -> Number(t) \in 1..31
              [] directive = "H" -> Number(t) \in 0..23
              [] directive = "M" -> Number(t) \in 0..59
              [] directive = "S" -> Number(t) \in 0..61
       ELSE CASE directive = "m" -> Number(t) \in 1..9
              [] directive = "d" -> Number(t) \in 1..9
              [] directive = "H" -> TRUE
              [] directive = "M" -> TRUE
              [] directive = "S" -> TRUE

WidthsOf(choice) ==
    [j \in 1..5 |-> IF (choice \div (2 ^ (5 - j))) % 2 = 0 THEN 2 ELSE 1]

\* where directive j starts when the widths are w
StartOf(w, j) ==
    IF j = 1 THEN 5
    ELSE IF j = 2 THEN 5 + w[1]
    ELSE IF j = 3 THEN 5 + w[1] + w[2]
    ELSE IF j = 4 THEN 5 + w[1] + w[2] + w[3]
    ELSE IF j = 5 THEN 5 + w[1] + w[2] + w[3] + w[4]
    ELSE 5 + w[1] + w[2] + w[3] + w[4] + w[5]

TextOf(s, w, j) == SubSeq(s, StartOf(w, j), StartOf(w, j + 1) - 1)

RegexMatches(s, w) ==
    /\ Len(s) >= StartOf(w, 6) - 1
    /\ AllDigits(Prefix(s, 4))
    /\ \A j \in 1..5 : DirectiveMatches(<<"m", "d", "H", "M", "S">>[j],
                                      TextOf(s, w, j))

DaysInMonth(year, month) ==
    IF month = 2
    THEN (IF year % 4 = 0 /\ (year % 100 # 0 \/ year % 400 = 0)
          THEN 29 ELSE 28)
    ELSE IF month \in {4, 6, 9, 11} THEN 30
    ELSE 31

\* datetime.strptime(s, "%Y%m%d%H%M%S"): the first match of the regular
\* expression must end the string, and the fields must make a datetime;
\* None stands for the ValueError.  The choices 0..31 are the 32 ways of
\* giving each directive after %Y two characters or one, in the order the
\* regular expression tries them: the two-character alternatives first
strptime(s) ==
    IF \E c \in 0..31 : RegexMatches(s, WidthsOf(c))
    THEN LET first == CHOOSE c \in 0..31 :
                         /\ RegexMatches(s, WidthsOf(c))
                         /\ \A b \in 0..31 :
                               RegexMatches(s, WidthsOf(b)) => c <= b
             w == WidthsOf(first)
             dt == [year |-> Number(Prefix(s, 4)),
                    month |-> Number(TextOf(s, w, 1)),
                    day |-> Number(TextOf(s, w, 2)),
                    hour |-> Number(TextOf(s, w, 3)),
                    minute |-> Number(TextOf(s, w, 4)),
                    second |-> Number(TextOf(s, w, 5))]
         IN  IF /\ StartOf(w, 6) - 1 = Len(s)
                /\ dt.year >= 1
                /\ dt.day <= DaysInMonth(dt.year, dt.month)
                /\ dt.second <= 59
             THEN <<dt>>
             ELSE None
    ELSE None

\* "%02d" % n
TwoDigits(n) == <<Digits[((n \div 10) % 10) + 1], Digits[(n % 10) + 1]>>

\* "%04d" % n, what %Y gives for the years 1000..9999
FourDigits(n) == TwoDigits(n \div 100) \o TwoDigits(n % 100)

\* dt.strftime("%d/%m/%Y %H:%M:%S")
strftime(dt) ==
    TwoDigits(dt.day) \o <<"/">> \o TwoDigits(dt.month) \o <<"/">>
      \o FourDigits(dt.year) \o <<" ">> \o TwoDigits(dt.hour) \o <<":">>
      \o TwoDigits(dt.minute) \o <<":">> \o TwoDigits(dt.second)

Desconhecido ==
    <<"D", "e", "s", "c", "o", "n", "h", "e", "c", "i", "d", "o">>

\* signature_validator.py:453-467; date_str is reassigned before the parse,
\* so the fall-through returns the string without its "D:"
format_pdf_date(date_str) ==
    IF date_str.type # "str" \/ date_str.chars = <<>>
    THEN Desconhecido
    ELSE IF startswith(date_str.chars, <<"D", ":">>)
    THEN LET stripped == Suffix(date_str.chars, 2)
             dt == strptime(Prefix(stripped, 14))
         IN  IF dt # None THEN strftime(dt[1]) ELSE stripped
    ELSE date_str.chars

\* the arguments the function is tried on: None, a number, and the strings
\* made of an optional D:, a stamp or other text, and an optional suffix
DateArgs ==
    LET DateBodies ==
            {y \o m \o d \o h \o <<"3", "0">> \o sec :
                y \in {<<"2", "0", "2", "3">>, <<"2", "0", "2", "4">>},
                m \in {<<"0", "2">>, <<"1", "2">>, <<"1", "3">>},
                d \in {<<"1", "5">>, <<"2", "9">>, <<"0", "0">>},
                h \in {<<"1", "0">>, <<"2", "4">>},
                sec \in {<<"0", "0">>, <<"5">>}}
            \cup {<<>>, <<"a", "b", "c">>,
                  <<"I", "n", "v", "a", "l", "i", "d", " ", "D", "a", "t", "e">>}
        DatePrefixes == {<<>>, <<"D", ":">>}
        DateSuffixes ==
            {<<>>, <<"Z">>, <<"-", "0", "3", "'", "0", "0", "'">>}
    IN  {[type |-> "none", chars |-> <<>>],
         [type |-> "int", chars |-> <<>>]}
        \cup {[type |-> "str", chars |-> p \o b \o x] :
                p \in DatePrefixes, b \in DateBodies, x \in DateSuffixes}

DateInit ==
    /\ PipelineInit
    /\ chain_in = DefaultChainIn
    /\ chain_out = None
    /\ fn_in \in DateArgs
    /\ fn_out = None
    /\ scan = None
    /\ WebIdle

FormatDate ==
    /\ fn_out = None
    /\ fn_out' = <<format_pdf_date(fn_in)>>
    /\ UNCHANGED <<fn_in, scan, pipeline_vars, chain_vars, web_vars>>

SpecDate == DateInit /\ [][FormatDate]_vars

\* -------------------------------------------------- check_if_icp_brasil
\* An object identifier is the sequence of its components; dotted_string
\* writes them in decimal with dots between.
RECURSIVE Decimal(_)
Decimal(n) ==
    IF n < 10 THEN <<Digits[n + 1]>>
    ELSE Decimal(n \div 10) \o <<Digits[(n % 10) + 1]>>

RECURSIVE dotted_string(_)
dotted_string(oid) ==
    IF Len(oid) = 1 THEN Decimal(oid[1])
    ELSE dotted_string(SubSeq(oid, 1, Len(oid) - 1)) \o <<".">>
           \o Decimal(oid[Len(oid)])

\* icp_brasil.py:12-15
ICP_BRASIL_OID_BASE == dotted_string(<<2, 16, 76, 1, 2>>)

ICP_BRASIL_PERSON_OID == dotted_string(<<2, 16, 76, 1, 3, 1>>)

ICP_BRASIL_CNPJ_OID == dotted_string(<<2, 16, 76, 1, 3, 3>>)

ICP_BRASIL_AC_RAIZ == dotted_string(<<2, 16, 76, 1, 1>>)

CERTIFICATE_POLICIES == dotted_string(<<2, 5, 29, 32>>)

\* icp_brasil.py:18-29
ICP_BRASIL_AC_NAMES ==
    <<<<"A", "C", " ", "R", "A", "I", "Z">>,
      <<"A", "C", " ", "S", "E", "R", "P", "R", "O">>,
      <<"A", "C", " ", "C", "A", "I", "X", "A">>,
      <<"A", "C", " ", "S", "E", "R", "A", "S", "A">>,
      <<"A", "C", " ", "C", "E", "R", "T", "I", "S", "I", "G", "N">>,
      <<"A", "C", " ", "S", "O", "L", "U", "T", "I">>,
      <<"A", "C", " ", "V", "A", "L", "I", "D">>,
      <<"A", "C", " ", "D", "O", "C", "C", "L", "O", "U", "D">>,
      <<"A", "C", " ", "D", "I", "G", "I", "T", "A", "L", "S", "I", "G", "N">>,
      <<"A", "C", " ", "P", "R", "O", "D", "E", "M", "G", "E">>>>

ICP_BRASIL == <<"I", "C", "P", "-", "B", "R", "A", "S", "I", "L">>

LowerCase ==
    <<"a", "b", "c", "d", "e", "f", "g", "h", "i", "j", "k", "l", "m", "n",
      "o", "p", "q", "r", "s", "t", "u", "v", "w", "x", "y", "z">>

UpperCase ==
    <<"A", "B", "C", "D", "E", "F", "G", "H", "I", "J", "K", "L", "M", "N",
      "O", "P", "Q", "R", "S", "T", "U", "V", "W", "X", "Y", "Z">>

\* str.upper()
upper(s) ==
    [k \in 1..Len(s) |->
        IF \E n \in 1..26 : LowerCase[n] = s[k]
        THEN UpperCase[CHOOSE n \in 1..26 : LowerCase[n] = s[k]]
        ELSE s[k]]

\* sub in s
Contains(s, sub) ==
    \E k \in 1..(Len(s) - Len(sub) + 1) :
        SubSeq(s, k, k + Len(sub) - 1) = sub

\* icp_brasil.py:51 and 56: a known authority name or the designation, in
\* the upper-cased distinguished name
names_icp_brasil(name_str) ==
    \/ \E n \in 1..Len(ICP_BRASIL_AC_NAMES) :
          Contains(upper(name_str), upper(ICP_BRASIL_AC_NAMES[n]))
    \/ Contains(upper(name_str), ICP_BRASIL)

\* icp_brasil.py:44-47
extension_oid_matches(extension) ==
    LET oid_str == dotted_string(extension.oid)
    IN  \/ startswith(oid_str, ICP_BRASIL_OID_BASE)
        \/ startswith(oid_str, ICP_BRASIL_PERSON_OID)
        \/ oid_str = ICP_BRASIL_AC_RAIZ

\* icp_brasil.py:60-66
policy_matches(extension) ==
    /\ dotted_string(extension.oid) = CERTIFICATE_POLICIES
    /\ \E n \in 1..Len(extension.policies) :
          startswith(dotted_string(extension.policies[n]),
                     ICP_BRASIL_OID_BASE)

\* icp_brasil.py:32-72; a certificate whose extensions cannot be read makes
\* cert.extensions raise, and the except clause answers False
check_if_icp_brasil(cert) ==
    IF cert.extensions_raise THEN FALSE
    ELSE \/ \E n \in 1..Len(cert.extensions) :
               extension_oid_matches(cert.extensions[n])
         \/ names_icp_brasil(cert.issuer)
         \/ names_icp_brasil(cert.subject)
         \/ \E n \in 1..Len(cert.extensions) :
               policy_matches(cert.extensions[n])

\* the extensions the function is tried on: plain ones by object identifier,
\* and Certificate Policies with a list of policy identifiers
Extensions ==
    LET OidSamples ==
            {<<2, 5, 29, 15>>, <<2, 16, 76, 1, 2, 1, 1>>, <<2, 16, 76, 1, 20>>,
             <<2, 16, 76, 1, 3, 1>>, <<2, 16, 76, 1, 1>>, <<2, 16, 76, 1, 1, 5>>}
        PolicySamples ==
            {<<>>, <<<<1, 2, 3>>>>, <<<<2, 16, 76, 1, 2, 3, 1>>>>,
             <<<<1, 2, 3>>, <<2, 16, 76, 1, 2, 3, 1>>>>}
    IN  {[oid |-> o, policies |-> <<>>] : o \in OidSamples}
        \cup {[oid |-> <<2, 5, 29, 32>>, policies |-> p] :
                p \in PolicySamples}

ExtensionLists(n) == UNION {[1..m -> Extensions] : m \in 0..n}

IcpCerts ==
    LET IssuerSamples ==
            {<<"C", "N", "=", "S", "o", "m", "e", " ", "C", "A", ",", " ", "O", "=",
               "S", "o", "m", "e", " ", "O", "r", "g", "a", "n", "i", "z", "a", "t",
               "i", "o", "n", ",", " ", "C", "=", "U", "S">>,
             <<"C", "N", "=", "A", "C", " ", "S", "o", "l", "u", "t", "i", " ", "v",
               "5", ",", " ", "C", "=", "B", "R">>,
             <<"O", "=", "I", "C", "P", "-", "B", "r", "a", "s", "i", "l", ",", " ",
               "C", "=", "B", "R">>}
        SubjectSamples ==
            {<<"C", "N", "=", "J", "O", "A", "O", " ", "S", "I", "L", "V", "A", ",",
               " ", "C", "=", "B", "R">>,
             <<"C", "N", "=", "A", "c", " ", "R", "a", "i", "z", ",", " ", "O", "=",
               "i", "c", "p", "-", "b", "r", "a", "s", "i", "l">>}
    IN  [extensions : ExtensionLists(MaxExts), extensions_raise : BOOLEAN,
         issuer : IssuerSamples, subject : SubjectSamples]

IcpInit ==
    /\ PipelineInit
    /\ chain_in = DefaultChainIn
    /\ chain_out = None
    /\ fn_in \in IcpCerts
    /\ fn_out = None
    /\ scan = None
    /\ WebIdle

CheckIcp ==
    /\ fn_out = None
    /\ fn_out' = <<check_if_icp_brasil(fn_in)>>
    /\ UNCHANGED <<fn_in, scan, pipeline_vars, chain_vars, web_vars>>

SpecIcp == IcpInit /\ [][CheckIcp]_vars

\* ------------------- extract_cpf_from_certificate, extract_cnpj_from_certificate
\* Bytes are integers; chr gives the character of a byte, for the bytes the
\* sample values are made of: the digits, the space and the letter X.
Bytes == 48..57 \cup {32, 88}

chr(c) ==
    IF c \in 48..57 THEN Digits[c - 47]
    ELSE IF c = 32 THEN " "
    ELSE "X"

\* ''.join(chr(c) for c in data)
decode(data) == [k \in 1..Len(data) |-> chr(data[k])]

\* f"{cpf[:3]}.{cpf[3:6]}.{cpf[6:9]}-{cpf[9:]}"
format_cpf(cpf) ==
    SubSeq(cpf, 1, 3) \o <<".">> \o SubSeq(cpf, 4, 6) \o <<".">>
      \o SubSeq(cpf, 7, 9) \o <<"-">> \o Suffix(cpf, 9)

\* f"{cnpj[:2]}.{cnpj[2:5]}.{cnpj[5:8]}/{cnpj[8:12]}-{cnpj[12:]}"
format_cnpj(cnpj) ==
    SubSeq(cnpj, 1, 2) \o <<".">> \o SubSeq(cnpj, 3, 5) \o <<".">>
      \o SubSeq(cnpj, 6, 8) \o <<"/">> \o SubSeq(cnpj, 9, 12) \o <<"-">>
      \o Suffix(cnpj, 12)

\* the patterns of the regular expressions, d for \d
CpfPattern ==
    <<"d", "d", "d", ".", "d", "d", "d", ".", "d", "d", "d", "-", "d", "d">>

CnpjPattern ==
    <<"d", "d", ".", "d", "d", "d", ".", "d", "d", "d", "/", "d", "d", "d",
      "d", "-", "d", "d">>

DigitsPattern(n) == [k \in 1..n |-> "d"]

\* re.match of a pattern at position k of s
MatchesAt(s, k, pattern) ==
    /\ k + Len(pattern) - 1 <= Len(s)
    /\ \A j \in 1..Len(pattern) :
          IF pattern[j] = "d" THEN IsDigit(s[k + j - 1])
          ELSE s[k + j - 1] = pattern[j]

\* re.search(pattern, s).group(1), or None where re.search finds nothing
search(s, pattern) ==
    IF \E k \in 1..Len(s) : MatchesAt(s, k, pattern)
    THEN LET k == CHOOSE k \in 1..Len(s) :
                    /\ MatchesAt(s, k, pattern)
                    /\ \A j \in 1..(k - 1) : ~MatchesAt(s, j, pattern)
         IN  <<SubSeq(s, k, k + Len(pattern) - 1)>>
    ELSE None

\* [:=\s]
IsSeparator(c) == c \in {":", "=", " "}

\* the length of the run of separators that starts at position k
RECURSIVE SeparatorRun(_, _)
SeparatorRun(s, k) ==
    IF k <= Len(s) /\ IsSeparator(s[k]) THEN 1 + SeparatorRun(s, k + 1)
    ELSE 0

\* the group of label[:=\s]+(pattern|\d{n}) matched at position k, or None
LabelledAt(s, k, label, pattern, n) ==
    LET g == k + Len(label) + SeparatorRun(s, k + Len(label))
    IN  IF /\ k + Len(label) - 1 <= Len(s)
           /\ SubSeq(s, k, k + Len(label) - 1) = label
           /\ SeparatorRun(s, k + Len(label)) >= 1
        THEN IF MatchesAt(s, g, pattern)
             THEN <<SubSeq(s, g, g + Len(pattern) - 1)>>
             ELSE IF MatchesAt(s, g, DigitsPattern(n))
             THEN <<SubSeq(s, g, g + n - 1)>>
             ELSE None
        ELSE None

\* re.search(r'label[:=\s]+(pattern|\d{n})', s): the first match's group
search_labelled(s, label, pattern, n) ==
    IF \E k \in 1..Len(s) : LabelledAt(s, k, label, pattern, n) # None
    THEN LET k == CHOOSE k \in 1..Len(s) :
                    /\ LabelledAt(s, k, label, pattern, n) # None
                    /\ \A j \in 1..(k - 1) :
                          LabelledAt(s, j, label, pattern, n) = None
         IN  LabelledAt(s, k, label, pattern, n)
    ELSE None

SUBJECT_ALT_NAME == dotted_string(<<2, 5, 29, 17>>)

OTHER_NAME == dotted_string(<<2, 5, 29, 17, 1>>)

\* the first extension with the given dotted string whose value has at
\* least n bytes, as a sequence of at most one extension
FirstWithValue(extensions, oid_str, n) ==
    LET hits == {k \in 1..Len(extensions) :
                    /\ dotted_string(extensions[k].oid) = oid_str
                    /\ Len(extensions[k].value) >= n}
    IN  IF hits = {} THEN None
        ELSE <<extensions[CHOOSE k \in hits : \A j \in hits : k <= j]>>

\* the general names of the subjectAltName extensions, in order
RECURSIVE AltNames(_)
AltNames(extensions) ==
    IF extensions = <<>> THEN <<>>
    ELSE (IF dotted_string(extensions[1].oid) = SUBJECT_ALT_NAME
          THEN extensions[1].names ELSE <<>>) \o AltNames(Tail(extensions))

\* The second loop over the names: "raise" where name.type_id does not
\* exist or re.search finds nothing (the except clause then answers None),
\* the group where an otherName mentions the object identifier, "next"
\* where the loop ends.  A type_id that is an ObjectIdentifier is never
\* equal to the string "2.5.29.17.1".
RECURSIVE scan_alt_names(_, _, _)
scan_alt_names(names, oid_str, pattern) ==
    IF names = <<>> THEN [outcome |-> "next", value |-> <<>>]
    ELSE IF names[1].type_id = "missing"
    THEN [outcome |-> "raise", value |-> <<>>]
    ELSE IF names[1].type_id = "str" /\ names[1].type_str = OTHER_NAME
            /\ Contains(names[1].value, oid_str)
    THEN IF search(names[1].value, pattern) = None
         THEN [outcome |-> "raise", value |-> <<>>]
         ELSE [outcome |-> "return",
               value |-> search(names[1].value, pattern)[1]]
    ELSE scan_alt_names(Tail(names), oid_str, pattern)

\* extract_cpf_from_certificate as a mutation would write it: without the
\* except clause, the text "raise" standing for the exception that escapes
extract_cpf_from_certificate_propagating(cert) ==
    LET ext == FirstWithValue(cert.extensions, ICP_BRASIL_PERSON_OID, 11)
        alt == scan_alt_names(AltNames(cert.extensions),
                              ICP_BRASIL_PERSON_OID, CpfPattern)
        cpf_match == search_labelled(cert.subject, <<"C", "P", "F">>,
                                     CpfPattern, 11)
    IN  IF cert.extensions_raise THEN <<<<"r", "a", "i", "s", "e">>>>
        ELSE IF ext # None
        THEN <<format_cpf(decode(Prefix(ext[1].value, 11)))>>
        ELSE IF alt.outcome = "raise" THEN <<<<"r", "a", "i", "s", "e">>>>
        ELSE IF alt.outcome = "return" THEN <<alt.value>>
        ELSE IF cpf_match # None
        THEN IF Len(cpf_match[1]) = 11 THEN <<format_cpf(cpf_match[1])>>
             ELSE cpf_match
        ELSE None

\* icp_brasil.py:192-234; None is <<>>, a tax-ID is <<chars>>; the except
\* clause answers None when cert.extensions or the loop over the names raises
extract_cpf_from_certificate(cert) ==
    LET ext == FirstWithValue(cert.extensions, ICP_BRASIL_PERSON_OID, 11)
        alt == scan_alt_names(AltNames(cert.extensions),
                              ICP_BRASIL_PERSON_OID, CpfPattern)
        cpf_match == search_labelled(cert.subject, <<"C", "P", "F">>,
                                     CpfPattern, 11)
    IN  IF cert.extensions_raise THEN None
        ELSE IF ext # None
        THEN <<format_cpf(decode(Prefix(ext[1].value, 11)))>>
        ELSE IF alt.outcome = "raise" THEN None
        ELSE IF alt.outcome = "return" THEN <<alt.value>>
        ELSE IF cpf_match # None
        THEN IF Len(cpf_match[1]) = 11 THEN <<format_cpf(cpf_match[1])>>
             ELSE cpf_match
        ELSE None

\* icp_brasil.py:237-279
extract_cnpj_from_certificate(cert) ==
    LET ext == FirstWithValue(cert.extensions, ICP_BRASIL_CNPJ_OID, 14)
        alt == scan_alt_names(AltNames(cert.extensions),
                              ICP_BRASIL_CNPJ_OID, CnpjPattern)
        cnpj_match == search_labelled(cert.subject, <<"C", "N", "P", "J">>,
                                      CnpjPattern, 14)
    IN  IF cert.extensions_raise THEN None
        ELSE IF ext # None
        THEN <<format_cnpj(decode(Prefix(ext[1].value, 14)))>>
        ELSE IF alt.outcome = "raise" THEN None
        ELSE IF alt.outcome = "return" THEN <<alt.value>>
        ELSE IF cnpj_match # None
        THEN IF Len(cnpj_match[1]) = 14 THEN <<format_cnpj(cnpj_match[1])>>
             ELSE cnpj_match
        ELSE None

\* the certificates the functions are tried on: at most one extension of
\* each kind, in the order person, CNPJ, alternative names; the values are
\* a tax-ID in ASCII, one too short, one with a byte more, and ones with a
\* byte that is no digit
TaxExtensionLists ==
    LET CpfBytes == <<49, 50, 51, 52, 53, 54, 55, 56, 57, 48, 57>>
        CnpjBytes ==
            <<49, 50, 51, 52, 53, 54, 55, 56, 48, 48, 48, 49, 57, 57>>
        PersonValues ==
            {CpfBytes, CpfBytes \o <<57>>, SubSeq(CpfBytes, 1, 10)}
            \cup {[CpfBytes EXCEPT ![k] = 88] : k \in 1..MaxBadByte}
        CnpjValues ==
            {CnpjBytes, SubSeq(CnpjBytes, 1, 13),
             [CnpjBytes EXCEPT ![9] = 32]}
        OtherNameTexts ==
            {<<"2", ".", "1", "6", ".", "7", "6", ".", "1", ".", "3", ".", "1", " ",
               "1", "2", "3", ".", "4", "5", "6", ".", "7", "8", "9", "-", "0",
               "9">>,
             <<"2", ".", "1", "6", ".", "7", "6", ".", "1", ".", "3", ".", "1", " ",
               "1", "2", "3", "4", "5", "6", "7", "8", "9", "0", "9">>,
             <<"2", ".", "1", "6", ".", "7", "6", ".", "1", ".", "3", ".", "3", " ",
               "1", "2", ".", "3", "4", "5", ".", "6", "7", "8", "/", "0", "0", "0",
               "1", "-", "9", "9">>}
        GeneralNames ==
            {[type_id |-> "missing", type_str |-> <<>>, value |-> <<>>]}
            \cup [type_id : {"ObjectIdentifier", "str"},
                  type_str : {OTHER_NAME}, value : OtherNameTexts]
    IN  {p \o c \o a :
            p \in {<<>>} \cup
                    {<<[oid |-> <<2, 16, 76, 1, 3, 1>>, value |-> v,
                        names |-> <<>>]>> : v \in PersonValues},
            c \in {<<>>} \cup
                    {<<[oid |-> <<2, 16, 76, 1, 3, 3>>, value |-> v,
                        names |-> <<>>]>> : v \in CnpjValues},
            a \in {<<>>} \cup
                    {<<[oid |-> <<2, 5, 29, 17>>, value |-> <<>>,
                        names |-> <<n>>]>> : n \in GeneralNames}}

TaxCerts ==
    LET TaxSubjects ==
            {<<"C", "N", "=", "J", "O", "A", "O", " ", "S", "I", "L", "V", "A", ":",
               "1", "2", "3", "4", "5", "6", "7", "8", "9", "0", "9">>,
             <<"C", "N", "=", "J", "O", "A", "O", ",", " ", "C", "P", "F", "=", "1",
               "2", "3", "4", "5", "6", "7", "8", "9", "0", "9">>,
             <<"C", "N", "=", "J", "O", "A", "O", ",", " ", "C", "P", "F", ":", " ",
               "1", "2", "3", ".", "4", "5", "6", ".", "7", "8", "9", "-", "0",
               "9">>,
             <<"C", "N", "=", "A", "C", "M", "E", ",", " ", "C", "N", "P", "J", "=",
               "1", "2", "3", "4", "5", "6", "7", "8", "0", "0", "0", "1", "9",
               "9">>,
             <<"C", "N", "=", "A", "C", "M", "E", ",", " ", "C", "N", "P", "J", " ",
               "1", "2", ".", "3", "4", "5", ".", "6", "7", "8", "/", "0", "0", "0",
               "1", "-", "9", "9", ",", " ", "C", "P", "F", "=", "1", "2", "3", "4",
               "5", "6", "7", "8", "9", "0">>}
    IN  [extensions : TaxExtensionLists, extensions_raise : BOOLEAN,
         subject : TaxSubjects]

TaxInit ==
    /\ PipelineInit
    /\ chain_in = DefaultChainIn
    /\ chain_out = None
    /\ fn_in \in TaxCerts
    /\ fn_out = None
    /\ scan = None
    /\ WebIdle

ExtractCpf ==
    /\ fn_out = None
    /\ fn_out' = <<[fn |-> "cpf",
                    value |-> extract_cpf_from_certificate(fn_in)]>>
    /\ UNCHANGED <<fn_in, scan, pipeline_vars, chain_vars, web_vars>>

ExtractCnpj ==
    /\ fn_out = None
    /\ fn_out' = <<[fn |-> "cnpj",
                    value |-> extract_cnpj_from_certificate(fn_in)]>>
    /\ UNCHANGED <<fn_in, scan, pipeline_vars, chain_vars, web_vars>>

TaxNext ==
    \/ ExtractCpf
    \/ ExtractCnpj

SpecTax == TaxInit /\ [][TaxNext]_vars

\* --------------------------------------------------------- the web layer
\* main.py:37-38
MAX_FILE_SIZE == 10 * 1024 * 1024

ALLOWED_EXTENSIONS == {<<".", "p", "d", "f">>}

\* the texts of main.py's messages, without their accents
TipoNaoPermitido ==
    <<"T", "i", "p", "o", " ", "d", "e", " ", "a", "r", "q", "u", "i", "v",
      "o", " ", "n", "a", "o", " ", "p", "e", "r", "m", "i", "t", "i", "d",
      "o", ":", " ">>

TrabalhoNaoEncontrado ==
    <<"T", "r", "a", "b", "a", "l", "h", "o", " ", "d", "e", " ", "v", "a",
      "l", "i", "d", "a", "c", "a", "o", " ", "n", "a", "o", " ", "e", "n",
      "c", "o", "n", "t", "r", "a", "d", "o">>

RelatorioNaoDisponivel ==
    <<"R", "e", "l", "a", "t", "o", "r", "i", "o", " ", "a", "i", "n", "d",
      "a", " ", "n", "a", "o", " ", "d", "i", "s", "p", "o", "n", "i", "v",
      "e", "l">>

\* str.lower()
lower(s) ==
    [k \in 1..Len(s) |->
        IF \E n \in 1..26 : UpperCase[n] = s[k]
        THEN LowerCase[CHOOSE n \in 1..26 : UpperCase[n] = s[k]]
        ELSE s[k]]

endswith(s, p) == Len(s) >= Len(p) /\ Suffix(s, Len(s) - Len(p)) = p

\* os.path.splitext(name)[1] of a name without directories: from the last
\* dot on, unless only dots come before it
splitext(name) ==
    LET dots == {k \in 1..Len(name) : name[k] = "."}
        last == CHOOSE k \in dots : \A j \in dots : j <= k
    IN  IF dots = {} THEN <<>>
        ELSE IF \A k \in 1..(last - 1) : name[k] = "." THEN <<>>
        ELSE Suffix(name, last - 1)

\* main.py:126-155; None is <<>>, a message is <<chars>>; file.size is the
\* length of the upload and file.header says that it starts with %PDF-
validate_file_security(file) ==
    LET ext == splitext(lower(file.filename))
        ApenasPdf ==
            <<".", " ", "A", "p", "e", "n", "a", "s", " ", "P", "D", "F", " ",
              "e", " ", "a", "c", "e", "i", "t", "o", ".">>
        MuitoGrande ==
            <<"A", "r", "q", "u", "i", "v", "o", " ", "m", "u", "i", "t", "o",
              " ", "g", "r", "a", "n", "d", "e", ":", " ">>
        MaximoPermitido ==
            <<".", " ", "M", "a", "x", "i", "m", "o", " ", "p", "e", "r", "m",
              "i", "t", "i", "d", "o", ":", " ", "1", "0", ".", "0", " ", "M",
              "B">>
        NaoPdfValido ==
            <<"A", "r", "q", "u", "i", "v", "o", " ", "n", "a", "o", " ", "e",
              " ", "u", "m", " ", "P", "D", "F", " ", "v", "a", "l", "i", "d",
              "o", ":", " ">>
        file_size == IF file.size > MAX_FILE_SIZE + 1
                     THEN MAX_FILE_SIZE + 1 ELSE file.size
    IN  IF ext \notin ALLOWED_EXTENSIONS
        THEN <<TipoNaoPermitido \o ext \o ApenasPdf>>
        ELSE IF file_size > MAX_FILE_SIZE
        THEN <<MuitoGrande \o file.filename \o MaximoPermitido>>
        ELSE IF ~file.header
        THEN <<NaoPdfValido \o file.filename>>
        ELSE None

\* main.py:191-237: the file goes to rejected_files
is_rejected(file) ==
    \/ validate_file_security(file) # None
    \/ ~endswith(lower(file.filename), <<".", "p", "d", "f">>)
    \/ ~file.saves

is_saved(file) == ~is_rejected(file)

\* ', '.join(f.filename for f in files)
RECURSIVE join_filenames(_)
join_filenames(files) ==
    IF files = <<>> THEN <<>>
    ELSE IF Len(files) = 1 THEN files[1].filename
    ELSE files[1].filename \o <<",", " ">> \o join_filenames(Tail(files))

\* a response: the endpoint and the job id asked for, the status code, the
\* detail of an HTTPException, and what a 200 carries
Respond(endpoint, job_id, code, detail, body) ==
    [endpoint |-> endpoint, job_id |-> job_id, code |-> code,
     detail |-> detail, body |-> body]

NoBody == [kind |-> "none", status |-> "", progress |-> 0, count |-> 0]

\* main.py:163-267 for a request with files, when job_id is the new id
upload_files(files, job_id) ==
    LET saved_files == SelectSeq(files, is_saved)
        rejected_files == SelectSeq(files, is_rejected)
        NenhumArquivo ==
            <<"N", "e", "n", "h", "u", "m", " ", "a", "r", "q", "u", "i", "v",
              "o", " ", "f", "o", "i", " ", "e", "n", "v", "i", "a", "d",
              "o">>
        NenhumPdfValido ==
            <<"N", "e", "n", "h", "u", "m", " ", "a", "r", "q", "u", "i", "v",
              "o", " ", "P", "D", "F", " ", "v", "a", "l", "i", "d", "o", " ",
              "f", "o", "i", " ", "e", "n", "v", "i", "a", "d", "o">>
        ArquivosRejeitados ==
            <<"A", "r", "q", "u", "i", "v", "o", "s", " ", "r", "e", "j", "e",
              "i", "t", "a", "d", "o", "s", ":", " ">>
    IN  IF files = <<>>
        THEN Respond("upload", 0, 400, NenhumArquivo, NoBody)
        ELSE IF saved_files = <<>>
        THEN Respond("upload", 0, 400,
                     IF rejected_files # <<>>
                     THEN ArquivosRejeitados \o join_filenames(rejected_files)
                     ELSE NenhumPdfValido,
                     NoBody)
        ELSE Respond("upload", job_id, 200, <<>>,
                     [kind |-> "received", status |-> "", progress |-> 0,
                      count |-> Len(saved_files)])

\* main.py:270-279
get_job_status(job_id) ==
    IF job_id \notin JobIds \/ jobs[job_id] = None
    THEN Respond("status", job_id, 404, TrabalhoNaoEncontrado, NoBody)
    ELSE Respond("status", job_id, 200, <<>>,
                 [kind |-> "job", status |-> jobs[job_id][1].status,
                  progress |-> jobs[job_id][1].progress, count |-> 0])

\* get_report as a mutation would write it: without os.path.exists
get_report_unchecked(job_id) ==
    IF job_id \notin JobIds \/ jobs[job_id] = None
    THEN Respond("report", job_id, 404, TrabalhoNaoEncontrado, NoBody)
    ELSE IF jobs[job_id][1].status # "completo"
            \/ jobs[job_id][1].report_path = None
    THEN Respond("report", job_id, 404, RelatorioNaoDisponivel, NoBody)
    ELSE Respond("report", job_id, 200, <<>>,
                 [kind |-> "file", status |-> "", progress |-> 0,
                  count |-> jobs[job_id][1].report_path[1]])

\* main.py:282-300; the body of the FileResponse names the report file
get_report(job_id) ==
    LET ArquivoNaoEncontrado ==
            <<"A", "r", "q", "u", "i", "v", "o", " ", "d", "e", " ", "r", "e",
              "l", "a", "t", "o", "r", "i", "o", " ", "n", "a", "o", " ", "e",
              "n", "c", "o", "n", "t", "r", "a", "d", "o">>
    IN
    IF job_id \notin JobIds \/ jobs[job_id] = None
    THEN Respond("report", job_id, 404, TrabalhoNaoEncontrado, NoBody)
    ELSE IF jobs[job_id][1].status # "completo"
            \/ jobs[job_id][1].report_path = None
    THEN Respond("report", job_id, 404, RelatorioNaoDisponivel, NoBody)
    ELSE IF jobs[job_id][1].report_path[1] \notin reports
    THEN Respond("report", job_id, 404, ArquivoNaoEncontrado, NoBody)
    ELSE Respond("report", job_id, 200, <<>>,
                 [kind |-> "file", status |-> "", progress |-> 0,
                  count |-> jobs[job_id][1].report_path[1]])

\* main.py:94-123: the rows older than FILE_RETENTION_DAYS go, and their
\* report files with them
expired_jobs(table) ==
    {j \in JobIds : table[j] # None /\ table[j][1].expired}

jobs_after_clean(table) ==
    [j \in JobIds |-> IF j \in expired_jobs(table) THEN None ELSE table[j]]

reports_after_clean(table, files) ==
    files \ {table[j][1].report_path[1] :
               j \in {k \in expired_jobs(table) :
                        table[k][1].report_path # None}}

\* the uploads the handlers are tried on
UploadFiles ==
    {[filename |-> <<"t", "e", "s", "t", ".", "t", "x", "t">>,
      size |-> 5, header |-> FALSE, saves |-> TRUE],
     [filename |-> <<"n", "o", "t", "e", "s">>,
      size |-> 5, header |-> FALSE, saves |-> TRUE],
     [filename |-> <<"d", "o", "c", ".", "p", "d", "f">>,
      size |-> 5, header |-> TRUE, saves |-> TRUE],
     [filename |-> <<"D", "O", "C", ".", "P", "D", "F">>,
      size |-> MAX_FILE_SIZE, header |-> TRUE, saves |-> TRUE],
     [filename |-> <<"b", "i", "g", ".", "p", "d", "f">>,
      size |-> MAX_FILE_SIZE + 2, header |-> TRUE, saves |-> TRUE],
     [filename |-> <<"f", "a", "k", "e", ".", "p", "d", "f">>,
      size |-> 5, header |-> FALSE, saves |-> TRUE],
     [filename |-> <<"d", "o", "c", ".", "p", "d", "f">>,
      size |-> 5, header |-> TRUE, saves |-> FALSE]}

UploadLists == UNION {[1..m -> UploadFiles] : m \in 0..2}

\* the job ids a request may name: the ids of the table and one that no
\* job ever gets
RequestIds == {0} \cup JobIds

\* POST /upload/: the job row is added and, when no file was saved, deleted
\* again before the handler ends; otherwise the task is created
Upload(files) ==
    /\ IF SelectSeq(files, is_saved) = <<>>
       THEN /\ response' = <<upload_files(files, 0)>>
            /\ UNCHANGED <<jobs, tasks>>
       ELSE \E job_id \in JobIds :
                /\ jobs[job_id] = None
                /\ job_id \notin tasks
                /\ response' = <<upload_files(files, job_id)>>
                /\ jobs' = [jobs EXCEPT ![job_id] =
                              <<[status |-> "processando", progress |-> 0,
                                 report_path |-> None,
                                 files |-> Len(SelectSeq(files, is_saved)),
                                 expired |-> FALSE]>>]
                /\ tasks' = tasks \cup {job_id}
    /\ UNCHANGED <<reports, pipeline_vars, chain_vars, fn_vars>>

\* GET /status/{job_id}
GetStatus(job_id) ==
    /\ response' = <<get_job_status(job_id)>>
    /\ UNCHANGED <<jobs, reports, tasks, pipeline_vars, chain_vars, fn_vars>>

\* GET /report/{job_id}
GetReport(job_id) ==
    /\ response' = <<get_report(job_id)>>
    /\ UNCHANGED <<jobs, reports, tasks, pipeline_vars, chain_vars, fn_vars>>

\* main.py:303-355, which has no await and so runs in one piece: with the
\* row gone it returns; generate_report either writes the file, and the job
\* is completed and the expired jobs are cleaned, or raises, and the job
\* keeps the progress of its last file
ProcessJob(job_id) ==
    /\ job_id \in tasks
    /\ tasks' = tasks \ {job_id}
    /\ IF jobs[job_id] = None
       THEN UNCHANGED <<jobs, reports>>
       ELSE LET job == jobs[job_id][1]
                last == ((job.files - 1) * 100) \div job.files
                done == [jobs EXCEPT ![job_id] =
                           <<[job EXCEPT !.status = "completo",
                                         !.progress = 100,
                                         !.report_path = <<job_id>>]>>]
            IN  \/ /\ jobs' = jobs_after_clean(done)
                   /\ reports' =
                        reports_after_clean(done, reports \cup {job_id})
                \/ /\ jobs' = [jobs EXCEPT ![job_id] =
                                 <<[job EXCEPT !.progress = last]>>]
                   /\ UNCHANGED reports
    /\ UNCHANGED <<response, pipeline_vars, chain_vars, fn_vars>>

\* FILE_RETENTION_DAYS pass since the job was created
Expire(job_id) ==
    /\ jobs[job_id] # None
    /\ ~jobs[job_id][1].expired
    /\ jobs' = [jobs EXCEPT ![job_id] =
                  <<[jobs[job_id][1] EXCEPT !.expired = TRUE]>>]
    /\ UNCHANGED <<reports, tasks, response, pipeline_vars, chain_vars,
                   fn_vars>>

\* main.py:49-61, one round of the periodic task: the report files older
\* than REPORT_RETENTION_DAYS are those of expired jobs, which the last
\* call removes with their rows
CleanPeriodically ==
    /\ expired_jobs(jobs) # {}
    /\ jobs' = jobs_after_clean(jobs)
    /\ reports' = reports_after_clean(jobs, reports)
    /\ UNCHANGED <<tasks, response, pipeline_vars, chain_vars, fn_vars>>

\* the report file leaves the disk while the row stays, which line 293 of
\* main.py provides for: the directory is not the application's alone
ReportRemoved(job_id) ==
    /\ job_id \in reports
    /\ reports' = reports \ {job_id}
    /\ UNCHANGED <<jobs, tasks, response, pipeline_vars, chain_vars,
                   fn_vars>>

WebNext ==
    \/ \E files \in UploadLists : Upload(files)
    \/ \E job_id \in RequestIds : GetStatus(job_id)
    \/ \E job_id \in RequestIds : GetReport(job_id)
    \/ \E job_id \in JobIds : ProcessJob(job_id)
    \/ \E job_id \in JobIds : Expire(job_id)
    \/ CleanPeriodically
    \/ \E job_id \in JobIds : ReportRemoved(job_id)

\* the service starts as Init has it: no job, no report, no request
SpecWeb == Init /\ [][WebNext]_vars

\* main.py:265: a task created with asyncio.create_task is run by the
\* event loop once the handler yields
SpecWebFair ==
    Init /\ [][WebNext]_vars
         /\ \A job_id \in JobIds : WF_vars(ProcessJob(job_id))

\* ------------------------------------------------ extract_icp_brasil_info
\* the policy identifiers of the Certificate Policies extensions, in order
RECURSIVE policy_identifiers(_)
policy_identifiers(extensions) ==
    IF extensions = <<>> THEN <<>>
    ELSE (IF dotted_string(extensions[1].oid) = CERTIFICATE_POLICIES
          THEN extensions[1].policies ELSE <<>>)
           \o policy_identifiers(Tail(extensions))

\* icp_brasil.py:140-189
detect_certificate_type(cert) ==
    LET TypeTable ==
            <<[oid |-> <<2, 16, 76, 1, 2, 1, 1>>,
               label |-> <<"A", "1", " ", "-", " ", "P", "e", "s", "s", "o", "a",
                           " ", "F", "i", "s", "i", "c", "a">>],
              [oid |-> <<2, 16, 76, 1, 2, 1, 2>>,
               label |-> <<"A", "1", " ", "-", " ", "P", "e", "s", "s", "o", "a",
                           " ", "J", "u", "r", "i", "d", "i", "c", "a">>],
              [oid |-> <<2, 16, 76, 1, 2, 3, 1>>,
               label |-> <<"A", "3", " ", "-", " ", "P", "e", "s", "s", "o", "a",
                           " ", "F", "i", "s", "i", "c", "a">>],
              [oid |-> <<2, 16, 76, 1, 2, 3, 2>>,
               label |-> <<"A", "3", " ", "-", " ", "P", "e", "s", "s", "o", "a",
                           " ", "J", "u", "r", "i", "d", "i", "c", "a">>],
              [oid |-> <<2, 16, 76, 1, 2, 4, 1>>,
               label |-> <<"A", "4", " ", "-", " ", "P", "e", "s", "s", "o", "a",
                           " ", "F", "i", "s", "i", "c", "a">>],
              [oid |-> <<2, 16, 76, 1, 2, 4, 2>>,
               label |-> <<"A", "4", " ", "-", " ", "P", "e", "s", "s", "o", "a",
                           " ", "J", "u", "r", "i", "d", "i", "c", "a">>]>>
            type_of_policy(policy) ==
            LET found == {k \in 1..Len(TypeTable) :
                            dotted_string(policy)
                              = dotted_string(TypeTable[k].oid)}
            IN  IF found = {} THEN None
                ELSE <<TypeTable[CHOOSE k \in found : TRUE].label>>
        policies == policy_identifiers(cert.extensions)
        hits == {k \in 1..Len(policies) : type_of_policy(policies[k]) # None}
        generic == <<"C", "e", "r", "t", "i", "f", "i", "c", "a", "d", "o",
                     " ", "I", "C", "P", "-", "B", "r", "a", "s", "i", "l">>
    IN  IF cert.extensions_raise
        THEN <<"C", "e", "r", "t", "i", "f", "i", "c", "a", "d", "o", " ",
               "D", "i", "g", "i", "t", "a", "l">>
        ELSE IF hits # {}
        THEN type_of_policy(
                 policies[CHOOSE k \in hits : \A j \in hits : k <= j])[1]
        ELSE IF extract_cpf_from_certificate(cert) # None
        THEN IF extract_cnpj_from_certificate(cert) # None
             THEN generic \o <<" ", "(", "P", "F", " ", "e", " ", "P", "J",
                               ")">>
             ELSE generic \o <<" ", "(", "P", "F", ")">>
        ELSE IF extract_cnpj_from_certificate(cert) # None
        THEN generic \o <<" ", "(", "P", "J", ")">>
        ELSE generic

\* icp_brasil.py:324-353
extract_policy_level(cert) ==
    LET level_of_policy(policy) ==
            LET policy_oid == dotted_string(policy)
            IN  IF startswith(policy_oid, dotted_string(<<2, 16, 76, 1, 2, 1>>))
                THEN <<<<"A", "1">>>>
                ELSE IF startswith(policy_oid, dotted_string(<<2, 16, 76, 1, 2, 3>>))
                THEN <<<<"A", "3">>>>
                ELSE IF startswith(policy_oid, dotted_string(<<2, 16, 76, 1, 2, 4>>))
                THEN <<<<"A", "4">>>>
                ELSE None
        policies == policy_identifiers(cert.extensions)
        hits == {k \in 1..Len(policies) : level_of_policy(policies[k]) # None}
    IN  IF cert.extensions_raise \/ hits = {} THEN None
        ELSE level_of_policy(
                 policies[CHOOSE k \in hits : \A j \in hits : k <= j])

\* icp_brasil.py:75-137; a dict is its set of keys and a value for each key
\* it may have; extract_common_name and extract_organization_name return
\* the first CN and O attribute of the subject, cert.common_name and
\* cert.organization here; the dates and the serial number are left out
extract_icp_brasil_info(cert) ==
    LET cpf == extract_cpf_from_certificate(cert)
        cnpj == extract_cnpj_from_certificate(cert)
        policy_level == extract_policy_level(cert)
        nobody == [keys |-> {}, id |-> None, name |-> None]
        info == [keys |-> {"is_icp_brasil", "certificate_type",
                           "person_info", "organization_info", "issuer"},
                 is_icp_brasil |-> FALSE,
                 certificate_type |-> Desconhecido,
                 person_info |-> nobody,
                 organization_info |-> nobody,
                 issuer |-> cert.issuer,
                 policy_level |-> None]
    IN  IF ~check_if_icp_brasil(cert) THEN info
        ELSE [info EXCEPT
                !.is_icp_brasil = TRUE,
                !.certificate_type = detect_certificate_type(cert),
                !.person_info =
                   [keys |-> (IF cpf # None THEN {"cpf"} ELSE {})
                             \cup (IF cert.common_name # None
                                   THEN {"name"} ELSE {}),
                    id |-> cpf, name |-> cert.common_name],
                !.organization_info =
                   [keys |-> (IF cnpj # None THEN {"cnpj"} ELSE {})
                             \cup (IF cert.organization # None
                                   THEN {"name"} ELSE {}),
                    id |-> cnpj, name |-> cert.organization],
                !.keys = info.keys \cup (IF policy_level # None
                                         THEN {"policy_level"} ELSE {}),
                !.policy_level = policy_level]

\* the certificates extract_icp_brasil_info is tried on: an optional person
\* extension, CNPJ extension, subjectAltName with a name that is no
\* otherName, and Certificate Policies, under two issuers
InfoCerts ==
    LET Extension(oid, value, names, policies) ==
            [oid |-> oid, value |-> value, names |-> names,
             policies |-> policies]
        NoTypeId == [type_id |-> "missing", type_str |-> <<>>,
                     value |-> <<>>]
        PersonExts ==
            {<<>>, <<Extension(<<2, 16, 76, 1, 3, 1>>,
                       <<49, 50, 51, 52, 53, 54, 55, 56, 57, 48, 57>>,
                       <<>>, <<>>)>>}
        CnpjExts ==
            {<<>>, <<Extension(<<2, 16, 76, 1, 3, 3>>,
                       <<49, 50, 51, 52, 53, 54, 55, 56, 48, 48, 48, 49, 57,
                         57>>, <<>>, <<>>)>>}
        AltExts ==
            {<<>>, <<Extension(<<2, 5, 29, 17>>, <<>>, <<NoTypeId>>, <<>>)>>}
        PolicyOids ==
            {<<2, 16, 76, 1, 2, 1, 1>>, <<2, 16, 76, 1, 2, 1, 2>>,
             <<2, 16, 76, 1, 2, 3, 1>>, <<2, 16, 76, 1, 2, 3, 2>>,
             <<2, 16, 76, 1, 2, 4, 1>>, <<2, 16, 76, 1, 2, 4, 2>>,
             <<2, 16, 76, 1, 2, 4, 3>>, <<2, 16, 76, 1, 2, 3, 5>>,
             <<1, 2, 3>>}
        PolicyExts ==
            {IF ps = <<>> THEN <<>>
             ELSE <<Extension(<<2, 5, 29, 32>>, <<>>, <<>>, ps)>> :
                ps \in UNION {[1..m -> PolicyOids] : m \in 0..MaxPolicies}}
        Issuers ==
            {<<"O", "=", "I", "C", "P", "-", "B", "r", "a", "s", "i", "l",
               ",", " ", "C", "=", "B", "R">>,
             <<"C", "N", "=", "S", "o", "m", "e", " ", "C", "A", ",", " ",
               "C", "=", "U", "S">>}
    IN  {[extensions |-> p \o c \o a \o q, extensions_raise |-> r,
          issuer |-> iss,
          subject |-> <<"C", "N", "=", "J", "O", "A", "O", " ", "S", "I",
                        "L", "V", "A", ",", " ", "C", "=", "B", "R">>,
          common_name |-> <<<<"J", "O", "A", "O", " ", "S", "I", "L", "V",
                            "A">>>>,
          organization |-> None] :
            p \in PersonExts, c \in CnpjExts, a \in AltExts,
            q \in PolicyExts, r \in BOOLEAN, iss \in Issuers}

InfoInit ==
    /\ PipelineInit
    /\ chain_in = DefaultChainIn
    /\ chain_out = None
    /\ fn_in \in InfoCerts
    /\ fn_out = None
    /\ scan = None
    /\ WebIdle

ExtractInfo ==
    /\ fn_out = None
    /\ fn_out' = <<extract_icp_brasil_info(fn_in)>>
    /\ UNCHANGED <<fn_in, scan, pipeline_vars, chain_vars, web_vars>>

SpecInfo == InfoInit /\ [][ExtractInfo]_vars

\* ------------------------------------------- extract_basic_signature_info
\* the function as a mutation would write it: a missing /Reason is
\* reported as unknown instead of as the empty string
extract_basic_signature_info_unknown_reason(sig_dict) ==
    LET get(entry) == IF entry.present THEN entry.chars ELSE <<>>
        date == get(sig_dict.m)
    IN  [signer |-> get(sig_dict.name),
         signing_time |-> format_pdf_date([type |-> "str", chars |-> date]),
         reason |-> IF sig_dict.reason.present THEN sig_dict.reason.chars
                    ELSE Desconhecido,
         location |-> get(sig_dict.location),
         is_valid |-> FALSE]

\* signature_validator.py:196-214; an entry of the signature dictionary is
\* present or not, and a present entry holds a text string
extract_basic_signature_info(sig_dict) ==
    LET get(entry) == IF entry.present THEN entry.chars ELSE <<>>
        date == get(sig_dict.m)
    IN  [signer |-> get(sig_dict.name),
         signing_time |-> format_pdf_date([type |-> "str", chars |-> date]),
         reason |-> get(sig_dict.reason),
         location |-> get(sig_dict.location),
         is_valid |-> FALSE]

\* the signature dictionaries the function is tried on
SigDicts ==
    LET absent == [present |-> FALSE, chars |-> <<>>]
        Text(chars) == [present |-> TRUE, chars |-> chars]
        Texts == {absent, Text(<<>>), Text(<<"J", "o", "a", "o">>)}
        Dates ==
            {absent, Text(<<>>), Text(<<"2", "0", "2", "4">>),
             Text(<<"D", ":", "2", "0", "2", "4", "0", "2", "2", "9",
                    "1", "0", "3", "0", "0", "0", "Z">>),
             Text(<<"D", ":", "2", "0", "2", "4", "1", "3", "0", "1">>)}
    IN  [name : Texts, m : Dates, reason : Texts, location : Texts]

BasicInit ==
    /\ PipelineInit
    /\ chain_in = DefaultChainIn
    /\ chain_out = None
    /\ fn_in \in SigDicts
    /\ fn_out = None
    /\ scan = None
    /\ WebIdle

ExtractBasicInfo ==
    /\ fn_out = None
    /\ fn_out' = <<extract_basic_signature_info(fn_in)>>
    /\ UNCHANGED <<fn_in, scan, pipeline_vars, chain_vars, web_vars>>

SpecBasic == BasicInit /\ [][ExtractBasicInfo]_vars

\* ------------------------------------- the loops of extract_x509_from_data
\* The container as the two loops see it: its length, the offsets where
\* data.find meets b'\x30\x82', and the windows <<pos, end_pos>> that
\* x509.load_der_x509_certificate accepts.
ScanDatas ==
    LET Offsets == 0..(MaxOffsets - 1)
        Lengths == {0, 1, 3, 5, 4098}
        Windows(S) == {{}} \cup {{<<p, l>>} : p \in S, l \in {3, 4096}}
    IN  {d \in [len : Lengths, starts : SUBSET Offsets,
                certs : Windows(Offsets)] :
            /\ \A p \in d.starts : p + 2 <= d.len
            /\ \A w \in d.certs : w[1] \in d.starts /\ w[1] + w[2] <= d.len}

ScanInit ==
    /\ PipelineInit
    /\ chain_in = DefaultChainIn
    /\ chain_out = None
    /\ fn_in \in ScanDatas
    /\ fn_out = None
    /\ scan = [pc |-> "while", pos |-> 0, end_pos |-> 0, tried |-> 0,
               iterations |-> 0, head |-> 0]
    /\ WebIdle

\* signature_validator.py:315-318 and 321-325: the test of the while loop,
\* data.find from pos, and the first window of the for loop
Find ==
    /\ scan.pc = "while"
    /\ LET later == {p \in fn_in.starts : p >= scan.pos}
           found == CHOOSE p \in later : \A q \in later : p <= q
           remaining == fn_in.len - found
       IN  IF scan.pos >= fn_in.len \/ later = {}
           THEN scan' = [scan EXCEPT !.pc = "done"]
           ELSE scan' = [scan EXCEPT
                           !.pc = "for", !.head = scan.pos, !.pos = found,
                           !.end_pos = IF remaining < 4096 THEN remaining
                                       ELSE 4096,
                           !.tried = 0,
                           !.iterations = scan.iterations + 1]
    /\ UNCHANGED <<fn_in, fn_out, pipeline_vars, chain_vars, web_vars>>

\* the loop as a mutation would write it: pos is not advanced once the
\* windows of an offset are used up
TryWindow_same_offset ==
    /\ scan.pc = "for"
    /\ IF <<scan.pos, scan.end_pos>> \in fn_in.certs
       THEN /\ scan' = [scan EXCEPT !.pc = "done", !.tried = scan.tried + 1]
            /\ fn_out' = <<[pos |-> scan.pos, length |-> scan.end_pos]>>
       ELSE /\ scan' = IF scan.end_pos = 1
                       THEN [scan EXCEPT !.pc = "while",
                                         !.tried = scan.tried + 1]
                       ELSE [scan EXCEPT !.end_pos = scan.end_pos - 1,
                                         !.tried = scan.tried + 1]
            /\ UNCHANGED fn_out
    /\ UNCHANGED <<fn_in, pipeline_vars, chain_vars, web_vars>>

\* signature_validator.py:325-346: one window of the for loop; a window
\* that decodes returns its certificate, the last window that does not
\* ends the for loop and pos += 1 follows
TryWindow ==
    /\ scan.pc = "for"
    /\ IF <<scan.pos, scan.end_pos>> \in fn_in.certs
       THEN /\ scan' = [scan EXCEPT !.pc = "done", !.tried = scan.tried + 1]
            /\ fn_out' = <<[pos |-> scan.pos, length |-> scan.end_pos]>>
       ELSE /\ scan' = IF scan.end_pos = 1
                       THEN [scan EXCEPT !.pc = "while",
                                         !.pos = scan.pos + 1,
                                         !.tried = scan.tried + 1]
                       ELSE [scan EXCEPT !.end_pos = scan.end_pos - 1,
                                         !.tried = scan.tried + 1]
            /\ UNCHANGED fn_out
    /\ UNCHANGED <<fn_in, pipeline_vars, chain_vars, web_vars>>

ScanNext ==
    \/ Find
    \/ TryWindow

\* the call runs on: a step that can be taken is eventually taken
SpecScan == ScanInit /\ [][ScanNext]_vars /\ WF_vars(ScanNext)

\* ------------------------------------------------------------------ claims
Returned == pc = "done"

Listed == Returned /\ "total_signatures" \in verdict.keys

\* a result that is valid, for the aggregation experiments of C1
ValidSample ==
    validate_signature_cryptographically(
        [kind |-> "dict", contents |-> "bytes",
         data |-> [kind |-> "marker", cert |-> DefaultCert]], 0)

RemoveAt(s, k) == [m \in 1..(Len(s) - 1) |-> IF m < k THEN s[m] ELSE s[m + 1]]

SomeValid(sigs) == \E k \in 1..Len(sigs) : sigs[k].is_valid

\* C1: the verdict validate_signature returns has valid = true iff at least
\* one per-signature result has is_valid = true; adding a valid result to an
\* all-invalid list makes the aggregate valid, and removing the sole valid
\* result of a list makes it invalid again.
C1_ValidIffSomeResultValid ==
    Returned =>
      /\ verdict.valid <=> SomeValid(signatures)
      /\ (signatures # <<>> /\ ~SomeValid(signatures)) =>
            /\ ~verdict.valid
            /\ \A k \in 1..(Len(signatures) + 1) :
                  aggregate([m \in 1..(Len(signatures) + 1) |->
                               IF m < k THEN signatures[m]
                               ELSE IF m = k THEN ValidSample
                               ELSE signatures[m - 1]]).valid
      /\ \A k \in 1..Len(signatures) :
            (/\ signatures[k].is_valid
             /\ ~SomeValid(RemoveAt(signatures, k))) =>
               /\ verdict.valid
               /\ ~aggregate(RemoveAt(signatures, k)).valid

\* C1 witness: a returned verdict over a valid and an invalid result
C1_Witness ==
    /\ Listed
    /\ verdict.valid
    /\ Len(verdict.valid_signatures) = 1
    /\ Len(verdict.invalid_signatures) = 1

Parseable(d) == d.exists /\ d.header /\ d.parse /\ d.pages

\* no entry of /Fields is a signature field (or there is no /Fields at all)
NoSignatureFields(d) ==
    \/ d.acroform # "fields"
    \/ \A k \in 1..Len(d.fields) :
          d.fields[k].deref /\ d.fields[k].ft # "Sig"

\* C2: for every parseable PDF with zero signature fields, validate_signature
\* returns total_signatures = 0, valid = false and the "no signatures" error,
\* and the certificate decoder is never invoked.
C2_NoSignaturesVerdict ==
    (Returned /\ Parseable(doc) /\ NoSignatureFields(doc)) =>
      /\ "total_signatures" \in verdict.keys
      /\ verdict.total_signatures = 0
      /\ ~verdict.valid
      /\ "error" \in verdict.keys
      /\ verdict.error = "Documento nao contem assinaturas digitais"
      /\ ~extract_called
      /\ decoder_calls = 0

\* C3: a result is valid exactly when the signature is intact and the
\* certificate passed the temporal, key-usage and chain checks; a result is
\* never valid while its chain_valid is false.
C3_ValidOnlyWithValidCertificate ==
    \A k \in 1..Len(signatures) :
      LET r == signatures[k]
      IN  /\ r.is_valid => r.chain_valid
          /\ (r.certificate_info # None
              /\ r.certificate_info[1].chain_details # None) =>
                LET d == r.certificate_info[1].chain_details[1]
                IN  r.is_valid <=>
                      /\ r.signature_intact
                      /\ d.not_expired
                      /\ d.key_usage_valid
                      /\ d.chain_verified

TemporallyInvalid(c, t) == t < c.nb \/ t > c.na

ExpiryReasons ==
    {"Certificado expirado", "Certificado ainda nao e valido"}

InSeq(x, s) == \E k \in 1..Len(s) : s[k] = x

\* the reasons a result carries: its validation_error and the
\* validation_errors of its certificate's chain details
ReasonsOf(r) ==
    (IF r.validation_error # NoError THEN {r.validation_error} ELSE {})
    \cup (IF r.certificate_info # None
             /\ r.certificate_info[1].chain_details # None
          THEN {r.certificate_info[1].chain_details[1].validation_errors[k] :
                  k \in 1..Len(r.certificate_info[1].chain_details[1]
                                 .validation_errors)}
          ELSE {})

\* C4: a PDF with exactly one signed signature field whose certificate fails
\* temporal validity yields total_signatures = 1, valid = false and an
\* expiry-related reason on the single result.
C4_ExpiredCertificateInvalidDocument ==
    (/\ Returned
     /\ Parseable(doc)
     /\ doc.acroform = "fields"
     /\ Len(doc.fields) = 1
     /\ decodes(doc.fields[1])
     /\ doc.fields[1].v.data.kind = "cert"
     /\ Len(clock) = 1
     /\ TemporallyInvalid(doc.fields[1].v.data.cert, clock[1])) =>
      /\ "total_signatures" \in verdict.keys
      /\ verdict.total_signatures = 1
      /\ ~verdict.valid
      /\ Len(signatures) = 1
      /\ ReasonsOf(signatures[1]) \cap ExpiryReasons # {}

\* C5: every result with is_valid = false carries at least one failure
\* reason, also when no certificate could be extracted from the container.
C5_InvalidResultHasReason ==
    \A k \in 1..Len(signatures) :
      ~signatures[k].is_valid => ReasonsOf(signatures[k]) # {}

LoopEnded == extract_called /\ i > Len(doc.fields)

\* a signature field whose signature dictionary has no /Contents
MissingContents(f) ==
    f.deref /\ f.ft = "Sig" /\ f.v.kind = "dict" /\ f.v.contents = "absent"

Indices(s) == [k \in 1..Len(s) |-> k]

KeepsContents(j) == ~MissingContents(doc.fields[j])

FromSibling(k) == ~MissingContents(doc.fields[origin[k]])

\* the time field j was processed at (fields that give no result read no clock)
TimeOf(j) ==
    IF \E k \in 1..Len(origin) : origin[k] = j
    THEN clock[CHOOSE k \in 1..Len(origin) : origin[k] = j]
    ELSE 0

\* the fields of the document without those that lack /Contents
SiblingFields ==
    LET kept == SelectSeq(Indices(doc.fields), KeepsContents)
    IN  [m \in 1..Len(kept) |-> doc.fields[kept[m]]]

SiblingTimes ==
    LET kept == SelectSeq(Indices(doc.fields), KeepsContents)
    IN  [m \in 1..Len(kept) |-> TimeOf(kept[m])]

SiblingResults ==
    LET kept == SelectSeq(Indices(signatures), FromSibling)
    IN  [m \in 1..Len(kept) |-> signatures[kept[m]]]

\* C6: every signature field whose dictionary lacks /Contents gets an invalid
\* result with the "missing signature content" reason, and the results of the
\* other fields are those of the same document without that field.
C6_MissingContentsIsolated ==
    LoopEnded =>
      /\ \A j \in 1..Len(doc.fields) :
            MissingContents(doc.fields[j]) =>
              \E k \in 1..Len(signatures) :
                /\ origin[k] = j
                /\ ~signatures[k].is_valid
                /\ signatures[k].validation_error =
                      "Conteudo da assinatura nao encontrado"
      /\ SiblingResults =
            extract_and_validate_signatures(SiblingFields, SiblingTimes)

\* C6 witness: a field without /Contents was processed before a sibling whose
\* signature is valid
C6_Witness ==
    /\ LoopEnded
    /\ Len(doc.fields) = 2
    /\ MissingContents(doc.fields[1])
    /\ Len(signatures) = 2
    /\ signatures[2].is_valid

\* C7 (as stated): a certificate is temporally valid exactly when now is in
\* the half-open interval [notBefore, notAfter); now < notBefore gives the
\* "not yet valid" reason and now >= notAfter the "expired" reason.
C7_HalfOpenInterval ==
    chain_out # None =>
      LET c == chain_in.cert
          t == chain_in.now
          o == chain_out[1]
      IN  /\ o.not_expired <=> (c.nb <= t /\ t < c.na)
          /\ t < c.nb =>
                InSeq("Certificado ainda nao e valido", o.validation_errors)
          /\ (c.nb <= t /\ t >= c.na) =>
                InSeq("Certificado expirado", o.validation_errors)

\* C7 (amended): a certificate is temporally valid exactly when now is in
\* the closed interval [notBefore, notAfter]; now < notBefore gives the
\* "not yet valid" reason, and otherwise now > notAfter gives the "expired"
\* reason; a valid certificate gets neither.
C7_ClosedInterval ==
    chain_out # None =>
      LET c == chain_in.cert
          t == chain_in.now
          o == chain_out[1]
      IN  /\ o.not_expired <=> (c.nb <= t /\ t <= c.na)
          /\ InSeq("Certificado ainda nao e valido", o.validation_errors)
                <=> t < c.nb
          /\ InSeq("Certificado expirado", o.validation_errors)
                <=> (c.nb <= t /\ t > c.na)
          /\ ~o.not_expired => ~o.is_valid

\* C7 witness: a certificate checked at the very instant of its notAfter
C7_Witness ==
    /\ chain_out # None
    /\ chain_in.cert.nb < chain_in.cert.na
    /\ chain_in.now = chain_in.cert.na
    /\ chain_out[1].not_expired

\* C8: when every per-signature result is invalid, the verdict carries a
\* document-level error message (aggregating the individual reasons).
C8_AllInvalidHasDocumentError ==
    (Returned /\ signatures # <<>> /\ ~SomeValid(signatures)) =>
      /\ "error" \in verdict.keys
      /\ verdict.error # ""

\* a field whose processing fails: get_object() raises, /V is not a
\* dictionary, or /Contents is a string that is not hexadecimal
Fails(f) ==
    \/ ~f.deref
    \/ f.ft = "Sig" /\ f.v.kind = "notdict"
    \/ f.ft = "Sig" /\ f.v.kind = "dict" /\ f.v.contents = "badhex"

\* C9: a failure on one field becomes one invalid result for that field: the
\* loop goes on to the next field, the results collected so far are kept,
\* and validate_signature returns only after every field was processed.
C9_FieldFailureCaptured ==
    [][/\ (pc = "extract" /\ i <= Len(doc.fields) /\ Fails(doc.fields[i])
           /\ i' # i) =>
             /\ pc' = "extract"
             /\ i' = i + 1
             /\ Len(signatures') = Len(signatures) + 1
             /\ SubSeq(signatures', 1, Len(signatures)) = signatures
             /\ ~signatures'[Len(signatures')].is_valid
             /\ signatures'[Len(signatures')].validation_error # NoError
             /\ verdict' = verdict
       /\ (pc = "extract" /\ pc' = "done") =>
             /\ i = Len(doc.fields) + 1
             /\ "total_signatures" \in verdict'.keys =>
                   verdict'.total_signatures = Len(signatures)
      ]_vars

\* C9 witness: the first field failed and the second gave a valid result
C9_Witness ==
    /\ Listed
    /\ Len(doc.fields) = 2
    /\ Fails(doc.fields[1])
    /\ Len(signatures) = 2
    /\ ~signatures[1].is_valid
    /\ signatures[2].is_valid
    /\ verdict.total_signatures = 2

StructuralError(d) == ~d.exists \/ ~d.header \/ ~d.parse \/ ~d.pages

\* C10: validate_signature always returns a verdict with a valid flag; for a
\* missing file, a bad header, an unparseable PDF or a PDF without pages the
\* verdict is valid = false with one error string ("Arquivo nao encontrado"
\* for a missing file) and the fields are never looked at.
C10_AlwaysAVerdict ==
    /\ pc \in {"presence", "extract"} =>
          ENABLED (CheckPresence \/ ExtractField \/ Aggregate)
    /\ Returned =>
          /\ "valid" \in verdict.keys
          /\ StructuralError(doc) =>
                /\ ~verdict.valid
                /\ "error" \in verdict.keys
                /\ verdict.error \in
                      {"Arquivo nao encontrado", "Arquivo nao e um PDF valido",
                       "Erro ao ler PDF", "PDF corrompido ou sem paginas"}
                /\ ~doc.exists => verdict.error = "Arquivo nao encontrado"
                /\ "total_signatures" \notin verdict.keys
                /\ ~extract_called
                /\ decoder_calls = 0
                /\ signatures = <<>>

\* C10 witness: a PDF without pages that holds a signature field was refused
C10_Witness ==
    /\ Returned
    /\ doc.exists /\ doc.header /\ doc.parse /\ ~doc.pages
    /\ doc.acroform = "fields"
    /\ Len(doc.fields) = 1
    /\ decodes(doc.fields[1])
    /\ verdict.error = "PDF corrompido ou sem paginas"

\* C11: whenever the certificate information of a result was located by
\* scanning the container for byte patterns (DER markers with shrinking
\* windows), the result is flagged validation_method = pattern_matching.
\* Every certificate of the model is located that way: by
\* extract_x509_from_data or by search_x509_patterns.
C11_PatternMatchFlagged ==
    \A k \in 1..Len(signatures) :
      signatures[k].certificate_info # None =>
        signatures[k].certificate_info[1].validation_method
          = "pattern_matching"

UnsignedSig(f) == f.deref /\ f.ft = "Sig" /\ f.v.kind = "absent"

NotSig(f) == f.deref /\ f.ft # "Sig"

\* C15: a signature field without /V gives no result, is not counted in
\* total_signatures, and alone causes no document-level
\* extraction/validation error.
C15_UnsignedFieldNotAnError ==
    /\ \A k \in 1..Len(origin) : ~UnsignedSig(doc.fields[origin[k]])
    /\ Listed =>
          verdict.total_signatures =
            Cardinality({j \in 1..Len(doc.fields) :
                           ~UnsignedSig(doc.fields[j])
                           /\ ~NotSig(doc.fields[j])})
    /\ (/\ Returned
        /\ Parseable(doc)
        /\ doc.acroform = "fields"
        /\ \A j \in 1..Len(doc.fields) :
              UnsignedSig(doc.fields[j]) \/ NotSig(doc.fields[j])) =>
          verdict.error # "Nao foi possivel extrair ou validar assinaturas"

\* C16: a document whose only signature is a signature widget in a page's
\* /Annots array (no or malformed AcroForm) still has that signature
\* validated.
C16_AnnotationSignatureFound ==
    (/\ Returned
     /\ Parseable(doc)
     /\ doc.acroform # "fields"
     /\ doc.annots # <<>>) =>
      /\ extract_called
      /\ Len(signatures) = Len(doc.annots)
      /\ "total_signatures" \in verdict.keys

\* C19: with a Key-Usage extension present the key-usage check passes iff
\* digitalSignature or contentCommitment is set; with the extension absent
\* it passes and appends no reason.
C19_KeyUsageRule ==
    chain_out # None =>
      LET c == chain_in.cert
          o == chain_out[1]
          reason == "Certificado nao autorizado para assinatura digital"
      IN  /\ c.ku.ext = "present" =>
                /\ o.key_usage_valid <=> (c.ku.ds \/ c.ku.cc)
                /\ InSeq(reason, o.validation_errors) <=> ~o.key_usage_valid
                /\ ~o.key_usage_valid => ~o.is_valid
          /\ c.ku.ext = "absent" =>
                /\ o.key_usage_valid
                /\ ~InSeq(reason, o.validation_errors)
                /\ ~InSeq("Erro ao verificar Key Usage", o.validation_errors)
                /\ o.is_valid <=> (o.not_expired /\ o.chain_verified)

\* C19 witness: a certificate whose Key Usage sets contentCommitment only
\* passed the check
C19_Witness ==
    /\ chain_out # None
    /\ chain_in.cert.ku.ext = "present"
    /\ ~chain_in.cert.ku.ds
    /\ chain_in.cert.ku.cc
    /\ chain_out[1].key_usage_valid

\* C20: with trust anchors supplied the chain check passes iff the issuer
\* equals the subject of some anchor, and otherwise fails with the chain
\* reason and chain_verified = false; without anchors chain_verified = true.
C20_ChainRule ==
    chain_out # None =>
      LET c == chain_in.cert
          ts == chain_in.trusted
          o == chain_out[1]
          reason == "Cadeia de certificacao nao confiavel"
      IN  /\ ts # <<>> =>
                /\ o.chain_verified <=>
                      \E k \in 1..Len(ts) : ts[k].subject = c.issuer
                /\ ~o.chain_verified =>
                      InSeq(reason, o.validation_errors) /\ ~o.is_valid
                /\ o.chain_verified => ~InSeq(reason, o.validation_errors)
          /\ ts = <<>> =>
                o.chain_verified /\ ~InSeq(reason, o.validation_errors)

\* C20 witness: the issuer matched the second of two anchors
C20_Witness ==
    /\ chain_out # None
    /\ Len(chain_in.trusted) = 2
    /\ chain_in.trusted[1].subject # chain_in.cert.issuer
    /\ chain_in.trusted[2].subject = chain_in.cert.issuer
    /\ chain_out[1].chain_verified

\* a string made of D:, fourteen digits that are a calendar date and a time
\* of day, and anything after them
ValidPdfDate(s) ==
    /\ startswith(s, <<"D", ":">>)
    /\ Len(s) >= 16
    /\ AllDigits(SubSeq(s, 3, 16))
    /\ Number(SubSeq(s, 3, 6)) >= 1
    /\ Number(SubSeq(s, 7, 8)) \in 1..12
    /\ Number(SubSeq(s, 9, 10)) \in
          1..DaysInMonth(Number(SubSeq(s, 3, 6)), Number(SubSeq(s, 7, 8)))
    /\ Number(SubSeq(s, 11, 12)) \in 0..23
    /\ Number(SubSeq(s, 13, 14)) \in 0..59
    /\ Number(SubSeq(s, 15, 16)) \in 0..59

\* DD/MM/YYYY HH:MM:SS, copied from the fixed positions of D:YYYYMMDDHHmmSS
Displayed(s) ==
    SubSeq(s, 9, 10) \o <<"/">> \o SubSeq(s, 7, 8) \o <<"/">>
      \o SubSeq(s, 3, 6) \o <<" ">> \o SubSeq(s, 11, 12) \o <<":">>
      \o SubSeq(s, 13, 14) \o <<":">> \o SubSeq(s, 15, 16)

\* C14: format_pdf_date gives "Desconhecido" for None or a non-string, the
\* display form DD/MM/YYYY HH:MM:SS for D: plus a valid 14-character stamp
\* whatever follows it, and every other non-empty string unchanged.
C14_FormatPdfDate ==
    fn_out # None =>
      /\ fn_in.type # "str" => fn_out[1] = Desconhecido
      /\ (fn_in.type = "str" /\ fn_in.chars # <<>>) =>
            fn_out[1] = IF ValidPdfDate(fn_in.chars)
                        THEN Displayed(fn_in.chars)
                        ELSE fn_in.chars

\* object identifier oid is base or a descendant of base: base's components
\* followed by zero or more others
EqualOrBelow(oid, base) ==
    Len(oid) >= Len(base) /\ SubSeq(oid, 1, Len(base)) = base

HierarchyBases ==
    {<<2, 16, 76, 1, 2>>, <<2, 16, 76, 1, 3, 1>>, <<2, 16, 76, 1, 1>>}

\* C12: check_if_icp_brasil answers true exactly when some extension's
\* object identifier is one of the hierarchy bases or below one, or the
\* issuer or subject contains an authority name or ICP-BRASIL, or a
\* Certificate Policies policy identifier is prefixed by the base.
C12_IcpBrasilExactly ==
    fn_out # None =>
      (fn_out[1] <=>
         \/ \E n \in 1..Len(fn_in.extensions), b \in HierarchyBases :
               EqualOrBelow(fn_in.extensions[n].oid, b)
         \/ names_icp_brasil(fn_in.issuer)
         \/ names_icp_brasil(fn_in.subject)
         \/ \E n \in 1..Len(fn_in.extensions) :
               policy_matches(fn_in.extensions[n]))

\* the string without its punctuation
StripPunctuation(t) == SelectSeq(t, IsDigit)

\* C13: a tax-ID that extract_cpf_from_certificate returns has the form
\* ddd.ddd.ddd-dd and, stripped of punctuation, is the 11 source digits;
\* extract_cnpj_from_certificate mirrors it with dd.ddd.ddd/dddd-dd and 14.
C13_TaxIdRoundTrip ==
    (fn_out # None /\ fn_out[1].value # None) =>
      LET id == fn_out[1].value[1]
          cpf == fn_out[1].fn = "cpf"
          pattern == IF cpf THEN CpfPattern ELSE CnpjPattern
          n == IF cpf THEN 11 ELSE 14
          ext == FirstWithValue(fn_in.extensions,
                    IF cpf THEN ICP_BRASIL_PERSON_OID
                    ELSE ICP_BRASIL_CNPJ_OID, n)
      IN  /\ Len(id) = Len(pattern)
          /\ MatchesAt(id, 1, pattern)
          /\ Len(StripPunctuation(id)) = n
          /\ ext # None =>
                StripPunctuation(id) = decode(Prefix(ext[1].value, n))

\* every file of the request has an extension other than .pdf
OnlyNonPdf(files) ==
    /\ files # <<>>
    /\ \A k \in 1..Len(files) :
          splitext(lower(files[k].filename)) # <<".", "p", "d", "f">>

\* C17: POST /upload/ with only files whose extension is not .pdf answers
\* 400 with a detail that contains "Tipo de arquivo nao permitido".
C17_NonPdfUploadDetail ==
    [][\A files \in UploadLists :
          (OnlyNonPdf(files) /\ Upload(files)) =>
            /\ response'[1].code = 400
            /\ Contains(response'[1].detail,
                        SubSeq(TipoNaoPermitido, 1,
                               Len(TipoNaoPermitido) - 2))]_vars

Stored(job_id) == job_id \in JobIds /\ jobs[job_id] # None

\* the job exists, is complete, and its report file is on disk
ReportReady(job_id) ==
    /\ Stored(job_id)
    /\ jobs[job_id][1].status = "completo"
    /\ jobs[job_id][1].report_path # None
    /\ jobs[job_id][1].report_path[1] \in reports

FirstNamed(names, oid_str, pattern) ==
    LET hits == {k \in 1..Len(names) :
                    /\ names[k].type_id = "str"
                    /\ names[k].type_str = OTHER_NAME
                    /\ Contains(names[k].value, oid_str)
                    /\ search(names[k].value, pattern) # None}
    IN  IF hits = {} THEN None
        ELSE search(names[CHOOSE k \in hits : \A j \in hits : k <= j].value,
                    pattern)

\* the identifier of the first of the three sources that yields one, as its
\* source holds it: n characters, or the punctuated form
FirstSource(cert, oid_str, label, pattern, n) ==
    LET ext == FirstWithValue(cert.extensions, oid_str, n)
        named == FirstNamed(AltNames(cert.extensions), oid_str, pattern)
        subject == search_labelled(cert.subject, label, pattern, n)
    IN  IF ext # None THEN <<decode(Prefix(ext[1].value, n))>>
        ELSE IF named # None THEN named
        ELSE subject

\* C23: the tax-ID functions return the identifier of the first of the
\* sources extension, otherName, subject that yields one; a source that
\* yields nothing, such as an otherName that mentions the object identifier
\* without a formatted identifier, falls through to the next.
C23_FirstSourceWins ==
    (fn_out # None /\ ~fn_in.extensions_raise) =>
      LET cpf == fn_out[1].fn = "cpf"
          first == IF cpf
                   THEN FirstSource(fn_in, ICP_BRASIL_PERSON_OID,
                                    <<"C", "P", "F">>, CpfPattern, 11)
                   ELSE FirstSource(fn_in, ICP_BRASIL_CNPJ_OID,
                                    <<"C", "N", "P", "J">>, CnpjPattern, 14)
      IN  fn_out[1].value =
            IF first = None THEN None
            ELSE IF Len(first[1]) = 11 /\ cpf THEN <<format_cpf(first[1])>>
            ELSE IF Len(first[1]) = 14 /\ ~cpf THEN <<format_cnpj(first[1])>>
            ELSE first


\* the tier the mapping table gives a policy identifier: the level and
\* whether the table names the holder too, None outside the table
TableTier(policy) ==
    IF Len(policy) = 7 /\ SubSeq(policy, 1, 5) = <<2, 16, 76, 1, 2>>
    THEN IF SubSeq(policy, 6, 7) \in {<<1, 1>>, <<1, 2>>, <<3, 1>>, <<3, 2>>}
         THEN <<[level |-> policy[6], holder |-> policy[7]]>>
         ELSE IF policy[6] = 4 THEN <<[level |-> 4, holder |-> 0]>>
         ELSE None
    ELSE None

TierLabel(tier) ==
    <<"A", Digits[tier.level + 1]>>
      \o (IF tier.holder = 1
          THEN <<" ", "-", " ", "P", "e", "s", "s", "o", "a", " ",
                 "F", "i", "s", "i", "c", "a">>
          ELSE IF tier.holder = 2
          THEN <<" ", "-", " ", "P", "e", "s", "s", "o", "a", " ",
                 "J", "u", "r", "i", "d", "i", "c", "a">>
          ELSE <<>>)

GenericLabel(info) ==
    <<"C", "e", "r", "t", "i", "f", "i", "c", "a", "d", "o", " ",
      "I", "C", "P", "-", "B", "r", "a", "s", "i", "l">>
      \o (IF "cpf" \in info.person_info.keys
          THEN IF "cnpj" \in info.organization_info.keys
               THEN <<" ", "(", "P", "F", " ", "e", " ", "P", "J", ")">>
               ELSE <<" ", "(", "P", "F", ")">>
          ELSE IF "cnpj" \in info.organization_info.keys
          THEN <<" ", "(", "P", "J", ")">>
          ELSE <<>>)

\* C22: for a hierarchy member, certificate_type is the label of the first
\* Certificate-Policies identifier under 2.16.76.1.2 that the table maps
\* (.1.1, .1.2, .3.1, .3.2 to A1/A3 individual/organization, any .4.* to
\* A4), and the generic PF / PJ / PF-and-PJ label only when none is mapped.
C22_TierMapping ==
    (fn_out # None /\ fn_out[1].is_icp_brasil) =>
      LET info == fn_out[1]
          policies == policy_identifiers(fn_in.extensions)
          hits == {k \in 1..Len(policies) : TableTier(policies[k]) # None}
          first == TableTier(
                       policies[CHOOSE k \in hits : \A j \in hits : k <= j])[1]
      IN  IF hits = {} THEN info.certificate_type = GenericLabel(info)
          ELSE startswith(info.certificate_type, TierLabel(first))
                 /\ (first.holder # 0 =>
                       info.certificate_type = TierLabel(first))

\* C29: for an ICP-Brasil certificate whose certificate_type names level
\* A1, A3 or A4, policy_level is present and is that same level.
C29_TierOutputsAgree ==
    (fn_out # None /\ fn_out[1].is_icp_brasil) =>
      LET info == fn_out[1]
          named == SubSeq(info.certificate_type, 1, 2)
      IN  named \in {<<"A", "1">>, <<"A", "3">>, <<"A", "4">>} =>
            /\ "policy_level" \in info.keys
            /\ info.policy_level = <<named>>

\* the lookup of one tax identifier fails to decode: cert.extensions raises,
\* or no extension holds the identifier and the first general name has no
\* type_id
DecodeFails(cert, oid_str, n) ==
    \/ cert.extensions_raise
    \/ /\ FirstWithValue(cert.extensions, oid_str, n) = None
       /\ AltNames(cert.extensions) # <<>>
       /\ AltNames(cert.extensions)[1].type_id = "missing"

\* C24: extract_icp_brasil_info always returns the dictionary with its five
\* fixed keys, and a tax identifier whose lookup fails to decode is absent
\* from it (not found), never an escaped exception.
C24_DecodeFailureIsNotFound ==
    fn_out # None =>
      LET info == fn_out[1]
      IN  /\ {"is_icp_brasil", "certificate_type", "person_info",
              "organization_info", "issuer"} \subseteq info.keys
          /\ DecodeFails(fn_in, ICP_BRASIL_PERSON_OID, 11) =>
                "cpf" \notin info.person_info.keys
          /\ DecodeFails(fn_in, ICP_BRASIL_CNPJ_OID, 14) =>
                "cnpj" \notin info.organization_info.keys

C24_Witness ==
    /\ fn_out # None
    /\ fn_out[1].is_icp_brasil
    /\ ~fn_in.extensions_raise
    /\ DecodeFails(fn_in, ICP_BRASIL_PERSON_OID, 11)
    /\ "cnpj" \in fn_out[1].organization_info.keys
    /\ "cpf" \notin fn_out[1].person_info.keys


\* C25 as stated: each of /Name, /M, /Reason and /Location that is missing
\* from the signature dictionary yields the empty string in signer,
\* signing_time, reason and location.
C25_MissingIsEmpty ==
    fn_out # None =>
      /\ ~fn_in.name.present => fn_out[1].signer = <<>>
      /\ ~fn_in.m.present => fn_out[1].signing_time = <<>>
      /\ ~fn_in.reason.present => fn_out[1].reason = <<>>
      /\ ~fn_in.location.present => fn_out[1].location = <<>>

\* C25: a missing /Name, /Reason or /Location yields the empty string in
\* signer, reason or location, and a missing /M yields "Desconhecido" in
\* signing_time; the function returns a result for every dictionary.
C25_MissingHasDefault ==
    fn_out # None =>
      /\ ~fn_in.name.present => fn_out[1].signer = <<>>
      /\ ~fn_in.m.present => fn_out[1].signing_time = Desconhecido
      /\ ~fn_in.reason.present => fn_out[1].reason = <<>>
      /\ ~fn_in.location.present => fn_out[1].location = <<>>

C25_Witness ==
    /\ fn_out # None
    /\ ~fn_in.name.present /\ ~fn_in.m.present
    /\ ~fn_in.reason.present /\ ~fn_in.location.present
    /\ fn_out[1].signing_time = Desconhecido
    /\ fn_out[1].signer = <<>>

\* the document passed the opening checks and its fields were looked at
FieldsScanned ==
    /\ pc \in {"extract", "done"}
    /\ doc.exists /\ doc.header /\ doc.parse /\ doc.pages

\* C26: signature presence is reported iff some entry of /Fields that
\* dereferences has /FT = /Sig; an entry whose dereference fails adds no
\* result, and every later signed /Sig entry still gets its result.
C26_DereferenceFailureSkipsEntry ==
    /\ FieldsScanned =>
         (extract_called <=>
            /\ doc.acroform = "fields"
            /\ \E k \in 1..Len(doc.fields) :
                  doc.fields[k].deref /\ doc.fields[k].ft = "Sig")
    /\ \A k \in 1..Len(origin) : doc.fields[origin[k]].deref
    /\ (pc = "done" /\ extract_called) =>
         \A k \in 1..Len(doc.fields) :
            (doc.fields[k].deref /\ doc.fields[k].ft = "Sig"
               /\ doc.fields[k].v.kind = "dict")
              => \E j \in 1..Len(origin) : origin[j] = k

\* the place of result k among the results of the same validity
RankAmongAlike(k) ==
    Cardinality({j \in 1..k : signatures[j].is_valid = signatures[k].is_valid})

\* C28: in a verdict that lists signatures, every per-signature result is
\* in exactly one of valid_signatures and invalid_signatures, at its rank
\* among the results of the same validity (field order is kept), and
\* total_signatures is the sum of the two lengths.
C28_ListsPartitionResults ==
    (pc = "done" /\ "valid_signatures" \in verdict.keys) =>
      /\ \A k \in 1..Len(verdict.valid_signatures) :
            verdict.valid_signatures[k].is_valid
      /\ \A k \in 1..Len(verdict.invalid_signatures) :
            ~verdict.invalid_signatures[k].is_valid
      /\ Len(verdict.valid_signatures) + Len(verdict.invalid_signatures)
           = Len(signatures)
      /\ verdict.total_signatures
           = Len(verdict.valid_signatures) + Len(verdict.invalid_signatures)
      /\ \A k \in 1..Len(signatures) :
            LET list == IF signatures[k].is_valid
                        THEN verdict.valid_signatures
                        ELSE verdict.invalid_signatures
            IN  /\ RankAmongAlike(k) <= Len(list)
                /\ list[RankAmongAlike(k)] = signatures[k]

C28_Witness ==
    /\ pc = "done"
    /\ "valid_signatures" \in verdict.keys
    /\ Len(verdict.valid_signatures) = 1
    /\ Len(verdict.invalid_signatures) = 1
    /\ signatures[1] = verdict.invalid_signatures[1]
    /\ signatures[2] = verdict.valid_signatures[1]

\* C27: the scan of extract_x509_from_data ends on every container; after
\* each pass of the outer loop pos is beyond the pos the pass began with,
\* and at one offset at most min(4096, remaining length) windows are tried.
C27_ScanTerminates ==
    /\ [](scan # None =>
            /\ (scan.pc = "while" /\ scan.iterations > 0)
                  => scan.pos > scan.head
            /\ scan.tried <= 4096
            /\ scan.pc = "for" => scan.tried < fn_in.len - scan.pos)
    /\ <>(scan # None => scan.pc = "done")

C27_Witness ==
    /\ scan # None
    /\ scan.pc = "done"
    /\ fn_in.len > 4096
    /\ scan.iterations = 2
    /\ scan.tried = 4096
    /\ fn_out = None

JobCompleted(job_id) ==
    /\ jobs[job_id] # None
    /\ jobs[job_id][1].status = "completo"
    /\ jobs[job_id][1].progress = 100
    /\ jobs[job_id][1].report_path # None

\* C30: a job whose process_validation_job task is to run eventually has
\* status "completo", progress 100 and a report_path, unless its row was
\* removed first; while the row exists its progress never decreases and
\* stays within 0..100.
C30_JobEventuallyCompletes ==
    /\ [](\A job_id \in JobIds :
            jobs[job_id] # None => jobs[job_id][1].progress \in 0..100)
    /\ [][\A job_id \in JobIds :
            (jobs[job_id] # None /\ jobs'[job_id] # None) =>
               jobs'[job_id][1].progress >= jobs[job_id][1].progress]_vars
    /\ \A job_id \in JobIds :
          (job_id \in tasks /\ jobs[job_id] # None)
            ~> (jobs[job_id] = None \/ JobCompleted(job_id))

====
